---- MODULE Spec2Model ----
(***************************************************************************)
(* Remind-Me: the reminder / final-call scheduling engine of               *)
(* remind/cogs/reminders.py, with the policy test of remind/util/rounds.py *)
(* and the default policy table of remind/util/website_schema.py.          *)
(*                                                                         *)
(* Time is counted in ticks of one wall-clock unit.  Lead times, the       *)
(* refresh period and the UTC offsets of time zones are all expressed in   *)
(* ticks, so `60 * before_mins` of the source is `before` here.            *)
(* A Python str is a sequence of one-character strings.                    *)
(***************************************************************************)
EXTENDS Integers, Sequences, FiniteSets, TLC

VARIABLES
  now,              \* dt.datetime.utcnow(), in ticks
  started,          \* on_ready has run in this process
  next_update,      \* when the sleep of _update_task ends; Unset: no loop armed
  guilds,           \* bot.guilds, in iteration order
  db,               \* the rounds of the contest file CONTESTS_DB_FILE_PATH
  clist,            \* the contest file's existence and query time, and the API
  views,            \* Reminders.future_contests, active_contests, finished_contests
  start_time_map,   \* Reminders.start_time_map: start time -> list of Round
  guild_map,        \* Reminders.guild_map: guild -> GuildSettings
  task_map,         \* Reminders.task_map: guild -> list of reminder tasks
  stray,            \* live reminder tasks the cog holds no reference to
  chan_log,         \* guild -> messages posted in the reminder channel
  reactions,        \* guild -> per reminder message, the members reacting
  finalcall_map,    \* Reminders.finalcall_map: guild -> link -> FinalCallRequest
  finaltasks,       \* Reminders.finaltasks: guild -> link -> delivery task
  stray_final,      \* live final-call tasks the cog holds no reference to
  final_log,        \* guild -> notices posted in the final-call channel
  channels,         \* guild -> channel ids existing on the platform
  roles,            \* guild -> role ids existing on the platform
  role_calls,       \* transport log: createRole count, deleteRole count per role
  member_roles,     \* member -> roles granted
  handler,          \* member -> the reaction handler in flight for that member
  disk,             \* the pickled snapshot at GUILD_SETTINGS_MAP_PATH
  last,             \* history: the operation that ran last
  armed,            \* history: reminders whose task was created before fire time
  pf_round,         \* input of the policy test: a Round
  pf_websites,      \* input of the policy test: website -> WebsitePatterns
  pf_result         \* output of the policy test

vars == <<now, started, next_update, guilds, db, clist, views, start_time_map, guild_map, task_map, stray, chan_log, reactions, finalcall_map, finaltasks, stray_final, final_log, channels, roles, role_calls, member_roles, handler, disk, last, armed, pf_round, pf_websites, pf_result>>

pfVars == <<pf_round, pf_websites, pf_result>>
engineVars == <<now, started, next_update, guilds, db, clist, views, start_time_map, guild_map, task_map, stray, chan_log, reactions, finalcall_map, finaltasks, stray_final, final_log, channels, roles, role_calls, member_roles, handler, disk, last, armed>>

\* Python's None, where the field otherwise holds a name or an id, and where
\* it otherwise holds a number
None == "None"
Unset == 0 - 1

(***************************************************************************)
(* Bounds of the model.                                                    *)
(***************************************************************************)
MaxTime == 4
MaxBefore == 1
MaxNameLen == 3
MaxPatterns == 2
MaxRoles == 2
MaxNotices == 2

(***************************************************************************)
(* Python str operations.                                                  *)
(***************************************************************************)
lower_char(c) ==
  CASE c = "U" -> "u"
    [] c = "R" -> "r"
    [] c = "N" -> "n"
    [] OTHER -> c

lower(s) == [i \in 1..Len(s) |-> lower_char(s[i])]

\* `pattern in s` for two str
str_in(pattern, s) ==
  \E i \in 0..(Len(s) - Len(pattern)) : SubSeq(s, i + 1, i + Len(pattern)) = pattern

(***************************************************************************)
(* website_schema.schema, cut to two websites.  "u" "n" "r" stand for the  *)
(* letters of 'unrated' and 'rated': <<"r">> (rated) occurs in             *)
(* <<"u","n","r">> (unrated) as 'rated' occurs in 'unrated'.               *)
(***************************************************************************)
Websites == {"codeforces.com", "codechef.com"}

\* WebsitePatterns(_allowed_patterns=..., _disallowed_patterns=...): the
\* shorthands and the prefix at their defaults
WebsitePatterns(allowed, disallowed) ==
  [allowed_patterns |-> allowed, disallowed_patterns |-> disallowed,
   shorthands |-> <<>>, prefix |-> ""]

schema ==
  [w \in Websites |->
     IF w = "codeforces.com"
     THEN [WebsitePatterns(<< <<>> >>, << <<"u", "n", "r">> >>) EXCEPT
             !.shorthands = <<"cf", "codeforces">>, !.prefix = "CodeForces"]
     ELSE [WebsitePatterns(<< <<"r">> >>, << <<"u", "n", "r">> >>) EXCEPT
             !.shorthands = <<"cc", "codechef">>, !.prefix = "CodeChef"]]

(***************************************************************************)
(* Round.is_desired: the disallowed patterns are tried first, each hit     *)
(* returning False; then the allowed patterns, each hit returning True.    *)
(***************************************************************************)
RECURSIVE any_pattern_in(_, _)
any_pattern_in(patterns, s) ==
  IF patterns = <<>> THEN FALSE
  ELSE IF str_in(Head(patterns), s) THEN TRUE
  ELSE any_pattern_in(Tail(patterns), s)

is_desired_allow_first(round, websites) ==
  IF any_pattern_in(websites[round.website].allowed_patterns, lower(round.name)) THEN TRUE
  ELSE FALSE

is_desired(round, websites) ==
  IF any_pattern_in(websites[round.website].disallowed_patterns, lower(round.name)) THEN FALSE
  ELSE IF any_pattern_in(websites[round.website].allowed_patterns, lower(round.name)) THEN TRUE
  ELSE FALSE

(***************************************************************************)
(* The communities, the platform objects and the contest data.             *)
(***************************************************************************)
Guilds == {"g1", "g2"}
Members == {"m1", "m2"}
TimeZones == {"UTC", "Europe/Paris"}

\* the admin's channel for `remind here`, the one for `final here`, and the
\* mentionable role given to `remind here`
RemindChannel == "remind-channel"
FinalChannel == "final-channel"
RemindRole == "remind-role"

\* the UTC offset of a pytz time zone, in ticks
utcoffset(tz) == IF tz = "UTC" THEN 0 ELSE 1

\* remind.util.rounds.Round; a contest lasts one tick unless the file says
\* otherwise
Round(url, website, name, start_time) ==
  [url |-> url, website |-> website, name |-> name, start_time |-> start_time,
   duration |-> 1]

StartTimes == {2, 3}
FirstStart == CHOOSE s \in StartTimes : \A t \in StartTimes : s <= t

\* contest files: a Codeforces round and a CodeChef rated round, either in
\* the same start-time bucket or not, and an unrated Codeforces round
ContestFiles ==
  { << Round("cf/1", "codeforces.com", <<"R">>, s1),
       Round("cc/1", "codechef.com", <<"R">>, s2),
       Round("cf/2", "codeforces.com", <<"U", "n", "r">>, s1) >> : s1 \in {FirstStart}, s2 \in StartTimes }

\* sorted(before, reverse=True)
RECURSIVE sorted_reverse(_)
sorted_reverse(before) ==
  IF Len(before) <= 1 THEN before
  ELSE LET m == CHOOSE i \in DOMAIN before : \A j \in DOMAIN before : before[i] >= before[j]
           rest == [k \in 1..(Len(before) - 1) |-> IF k < m THEN before[k] ELSE before[k + 1]]
       IN <<before[m]>> \o sorted_reverse(rest)

\* the arguments given to `remind here`: one or two lead times, not yet
\* sorted descending, repeats included
BeforeArgs == {before \in UNION {[1..n -> 0..MaxBefore] : n \in 1..2} : \A i \in DOMAIN before : before[1] <= before[i]}

(***************************************************************************)
(* GuildSettings and get_default_guild_settings.                           *)
(***************************************************************************)
GuildSettings ==
  [remind_channel_id |-> None, remind_role_id |-> None, remind_before |-> None,
   finalcall_channel_id |-> None, finalcall_before |-> Unset,
   localtimezone |-> "UTC", website_patterns |-> [w \in Websites |-> WebsitePatterns(<<>>, <<>>)]]

get_default_guild_settings == [GuildSettings EXCEPT !.website_patterns = schema]

\* guild.get_channel / guild.get_role: the object, or None when it is gone
get_channel(g, id) == IF id \in channels[g] THEN id ELSE None
get_role(g, id) == IF id \in roles[g] THEN id ELSE None

(***************************************************************************)
(* Sequence helpers.                                                       *)
(***************************************************************************)
RECURSIVE Flatten(_)
Flatten(ss) == IF ss = <<>> THEN <<>> ELSE Head(ss) \o Flatten(Tail(ss))

RECURSIVE Ascending(_)
Ascending(S) ==
  IF S = {} THEN <<>>
  ELSE LET m == CHOOSE x \in S : \A y \in S : x <= y IN <<m>> \o Ascending(S \ {m})

Range(f) == {f[x] : x \in DOMAIN f}

EmptyDict == [k \in {} |-> None]

DictSet(d, k, v) == [x \in DOMAIN d \cup {k} |-> IF x = k THEN v ELSE d[x]]
DictDel(d, k) == [x \in DOMAIN d \ {k} |-> d[x]]

(***************************************************************************)
(* Tasks of the event loop.  A task is live while it is neither cancelled  *)
(* nor finished; Task.cancel() ends a live task at its current suspension   *)
(* point and is a no-op on one that has ended.                             *)
(***************************************************************************)
IsLive(task) == task.pc \notin {"done", "cancelled", "failed"}

cancel_noop(task) == task

cancel_if_sleeping(task) == IF task.pc = "sleep" THEN [task EXCEPT !.pc = "cancelled"] ELSE task

cancel(task) == IF IsLive(task) THEN [task EXCEPT !.pc = "cancelled"] ELSE task

\* RemindRequest, wrapped in the task that runs _send_reminder_at(request)
RemindRequest(channel, role, contests, before_secs, send_time, localtimezone) ==
  [channel |-> channel, role |-> role, contests |-> contests, before_secs |-> before_secs,
   send_time |-> send_time, localtimezone |-> localtimezone, pc |-> "new"]

\* FinalCallRequest: the role, the notice's message id and the notice's fields
FinalCallRequest(embed, role_id, msg_id) ==
  [role_id |-> role_id, msg_id |-> msg_id, embed_fields |-> embed.fields]

\* the task that runs send_finalcall_reminder(embed, guild_id, role, send_time, link)
FinalCallTask(embed, role, send_time, link) ==
  [embed |-> embed, role |-> role, send_time |-> send_time, link |-> link,
   pc |-> "new", wake |-> Unset]

(***************************************************************************)
(* The notice of a reminder: one field per contest of the bucket, the      *)
(* start time rendered in the community's time zone, the zone in the       *)
(* footer.                                                                 *)
(***************************************************************************)
_contest_start_time_format(contest, tz) == contest.start_time + utcoffset(tz)

_get_embed_fields_from_contests(contests, localtimezone) ==
  [i \in DOMAIN contests |->
     [name |-> <<contests[i].website, contests[i].name>>,
      value |-> [start |-> _contest_start_time_format(contests[i], localtimezone),
                 url |-> contests[i].url]]]

reminder_embed(request) ==
  [description |-> request.before_secs,
   fields |-> _get_embed_fields_from_contests(request.contests, request.localtimezone),
   footer |-> request.localtimezone]

\* get_values_from_embed: the link and the start time of the FIRST field,
\* the rendered start time read back in the time zone of the footer
get_values_from_embed(embed) ==
  [link |-> embed.fields[1].value.url,
   start_time |-> embed.fields[1].value.start - utcoffset(embed.footer)]

(***************************************************************************)
(* The synchronous part of the cog, as functions of the cog's state c.     *)
(* c.raised: an exception is propagating; what follows is skipped.         *)
(***************************************************************************)
Cog ==
  [start_time_map |-> start_time_map, guild_map |-> guild_map, task_map |-> task_map,
   stray |-> stray, finalcall_map |-> finalcall_map, finaltasks |-> finaltasks,
   stray_final |-> stray_final, disk |-> disk, armed |-> armed, raised |-> FALSE]

get_guild_contests(contests, settings) ==
  SelectSeq(contests, LAMBDA contest : is_desired(contest, settings.website_patterns))

\* the file at GUILD_SETTINGS_MAP_PATH: absent, or the pickled pair of tables
NoFile == [exists |-> FALSE]
Snapshot(gm, fm) == [exists |-> TRUE, guild_map |-> gm, finalcall_map |-> fm]

_serialize_guild_map(c) ==
  IF c.raised THEN c
  ELSE [c EXCEPT !.disk = Snapshot(c.guild_map, c.finalcall_map)]

\* the inner loop of _reschedule_reminder_tasks: one request per entry of
\* remind_before, whether or not its send time is still ahead
reminder_requests_future_only(channel, role, contests, start_time, settings) ==
  SelectSeq([k \in DOMAIN settings.remind_before |->
               RemindRequest(channel, role, contests, settings.remind_before[k],
                             start_time - settings.remind_before[k],
                             settings.localtimezone)],
            LAMBDA request : request.send_time > now)

reminder_requests(channel, role, contests, start_time, settings) ==
  [k \in DOMAIN settings.remind_before |->
     RemindRequest(channel, role, contests, settings.remind_before[k],
                   start_time - settings.remind_before[k],
                   settings.localtimezone)]

_reschedule_reminder_tasks(c, g) ==
  IF c.raised THEN c
  ELSE
    LET cancelled == [i \in DOMAIN c.task_map[g] |-> cancel(c.task_map[g][i])]
        cleared == [c EXCEPT !.task_map[g] = <<>>,
                             !.stray[g] = @ \cup {t \in Range(cancelled) : IsLive(t)}]
        settings == c.guild_map[g]
        channel == get_channel(g, settings.remind_channel_id)
        role == get_role(g, settings.remind_role_id)
        bucket(start_time) ==
          LET contests == get_guild_contests(c.start_time_map[start_time], settings)
          IN IF contests = <<>> THEN <<>>
             ELSE reminder_requests(channel, role, contests, start_time, settings)
        keys == Ascending(DOMAIN c.start_time_map)
        created == Flatten([k \in DOMAIN keys |-> bucket(keys[k])])
    IN IF DOMAIN c.start_time_map = {} THEN cleared
       ELSE IF settings.remind_role_id = None THEN cleared
       ELSE [cleared EXCEPT
               !.task_map[g] = created,
               !.armed[g] = @ \cup {<<created[i].send_time + created[i].before_secs,
                                      created[i].before_secs>> :
                                      i \in {j \in DOMAIN created : created[j].send_time > now}}]

_reschedule_finalcall_tasks(c, g) ==
  IF c.raised \/ DOMAIN c.finalcall_map[g] = {} THEN c
  ELSE
    LET pending == c.finalcall_map[g]
        old == c.finaltasks[g]
        cancelled == [l \in DOMAIN old |-> IF l \in DOMAIN pending THEN cancel(old[l]) ELSE old[l]]
        settings == c.guild_map[g]
        embed(l) == [fields |-> pending[l].embed_fields, footer |-> settings.localtimezone]
        values(l) == get_values_from_embed(embed(l))
        kept == {l \in DOMAIN pending : get_role(g, pending[l].role_id) # None}
        from(link) == CHOOSE l \in kept : values(l).link = link
        links == {values(l).link : l \in kept}
        replaced == {l \in DOMAIN cancelled : l \in links /\ IsLive(cancelled[l])}
    IN IF settings.finalcall_before = Unset
       THEN \* None * 60 raises TypeError, after the table was cleared
            [c EXCEPT !.finalcall_map[g] = EmptyDict, !.finaltasks[g] = cancelled,
                      !.raised = TRUE]
       ELSE [c EXCEPT
               !.finalcall_map[g] =
                  [link \in links |->
                     FinalCallRequest(embed(from(link)), pending[from(link)].role_id,
                                      pending[from(link)].msg_id)],
               !.finaltasks[g] =
                  [link \in DOMAIN cancelled \cup links |->
                     IF link \in links
                     THEN FinalCallTask(embed(from(link)), pending[from(link)].role_id,
                                        values(from(link)).start_time - settings.finalcall_before,
                                        link)
                     ELSE cancelled[link]],
               !.stray_final[g] = @ \cup {cancelled[l] : l \in replaced}]

RECURSIVE _reschedule_all_tasks(_, _)
_reschedule_all_tasks(c, gs) ==
  IF gs = <<>> THEN c
  ELSE _reschedule_all_tasks(
         _reschedule_finalcall_tasks(_reschedule_reminder_tasks(c, Head(gs)), Head(gs)),
         Tail(gs))

\* cog_after_invoke: runs after every command of the cog, failed or not
cog_after_invoke(c, g) ==
  _reschedule_finalcall_tasks(_reschedule_reminder_tasks(_serialize_guild_map(c), g), g)

\* Round.__init__ on a record of the contest file: strptime raises on a start
\* that is not a time
parses(contest) == contest.start_time # Unset

(***************************************************************************)
(* clist_api.cache: the contest file is written anew from the answer of    *)
(* the API when it is older than _CLIST_API_TIME_DIFFERENCE or the call is *)
(* forced; an answer that fails leaves the file as it is.                  *)
(***************************************************************************)
_CLIST_API_TIME_DIFFERENCE == 6

\* the time stamp 0 that stands for `no file`, on the clock of the model: a
\* whole window before its origin
Epoch == 0 - _CLIST_API_TIME_DIFFERENCE

\* the file: present or not, its `querytime`; and the latest call to the API:
\* when it was made, and whether it failed
CacheFile(exists, querytime) ==
  [exists |-> exists, querytime |-> querytime, asked |-> Unset, failed |-> FALSE]

FreshCache == CacheFile(TRUE, 0)

\* what _query_api may do: raise ClientError, or return the `objects` of the
\* answer
ClientError == [raised |-> TRUE, objects |-> <<>>]

ApiAnswers == {ClientError} \cup {[raised |-> FALSE, objects |-> file] : file \in ContestFiles}

\* the test that lets cache return without a call to the API
is_fresh(forced) ==
  LET last_time_stamp == IF clist.exists THEN clist.querytime ELSE Epoch
  IN ~forced /\ now - last_time_stamp < _CLIST_API_TIME_DIFFERENCE

cache(forced, answer) ==
  IF is_fresh(forced)
     THEN [db |-> db, clist |-> clist]
     ELSE IF answer.raised
     THEN [db |-> db, clist |-> [clist EXCEPT !.asked = now, !.failed = TRUE]]
     ELSE [db |-> answer.objects,
           clist |-> [exists |-> TRUE, querytime |-> now, asked |-> now, failed |-> FALSE]]

\* list.sort(key=start_time), and list.sort(key=start_time + duration,
\* reverse=True): both keep the order of equal keys
end_time(contest) == contest.start_time + contest.duration

RECURSIVE sorted_by_start(_)
sorted_by_start(contests) ==
  IF Len(contests) <= 1 THEN contests
  ELSE LET m == CHOOSE i \in DOMAIN contests :
                  /\ \A j \in DOMAIN contests : contests[i].start_time <= contests[j].start_time
                  /\ \A j \in 1..(i - 1) : contests[j].start_time > contests[i].start_time
           rest == [k \in 1..(Len(contests) - 1) |->
                      IF k < m THEN contests[k] ELSE contests[k + 1]]
       IN <<contests[m]>> \o sorted_by_start(rest)

\* the finished contests left in the order of the file
file_order(contests) == contests

RECURSIVE sorted_by_end_reverse(_)
sorted_by_end_reverse(contests) ==
  IF Len(contests) <= 1 THEN contests
  ELSE LET m == CHOOSE i \in DOMAIN contests :
                  /\ \A j \in DOMAIN contests : end_time(contests[i]) >= end_time(contests[j])
                  /\ \A j \in 1..(i - 1) : end_time(contests[j]) < end_time(contests[i])
           rest == [k \in 1..(Len(contests) - 1) |->
                      IF k < m THEN contests[k] ELSE contests[k + 1]]
       IN <<contests[m]>> \o sorted_by_end_reverse(rest)

\* _generate_contest_cache on the file that cache has left, data being its
\* `objects`: a Round is made of every record
cache_loads(data) == \A i \in DOMAIN data : parses(data[i])

contest_cache(data) == SelectSeq(data, LAMBDA contest : is_desired(contest, schema))

\* the three lists of _update_task, by the clock of the refresh
_FINISHED_CONTESTS_LIMIT == 2

\* future_contests as the start-time map sees it: the sort keeps the order
\* the contests of one start time have in the file
future_contests(data) ==
  SelectSeq(contest_cache(data), LAMBDA contest : contest.start_time > now)

active_contests(data) ==
  sorted_by_start(SelectSeq(contest_cache(data),
                            LAMBDA contest : contest.start_time <= now /\ now <= end_time(contest)))

finished_contests(data) ==
  LET finished == sorted_by_end_reverse(SelectSeq(contest_cache(data),
                                                  LAMBDA contest : end_time(contest) < now))
  IN SubSeq(finished, 1, IF Len(finished) < _FINISHED_CONTESTS_LIMIT
                         THEN Len(finished) ELSE _FINISHED_CONTESTS_LIMIT)

current_views(data) ==
  [future |-> sorted_by_start(future_contests(data)), active |-> active_contests(data),
   finished |-> finished_contests(data)]

\* the three lists after __init__
NoViews == [future |-> None, active |-> None, finished |-> None]

new_start_time_map(data) ==
  LET future == future_contests(data)
  IN [s \in {future[i].start_time : i \in DOMAIN future} |->
        SelectSeq(future, LAMBDA contest : contest.start_time = s)]

(***************************************************************************)
(* The state after Reminders.__init__, before on_ready.                    *)
(***************************************************************************)
\* history: the guilds whose reminder tasks the last operation rebuilt, and
\* those among them it rebuilt for the second time in succession, with the
\* settings, the future contests and the clock as they were; and, across a
\* restart, the pending work as it was when the process went down
NoRebuild == [rebuilt |-> {}, twice |-> {}, superseded |-> {}, phase |-> "none", pre |-> None]

\* superseded: the guilds among them that had a sleeping task when rebuilt
Rebuild(gs, c) ==
  [rebuilt |-> gs,
   twice |-> IF c.guild_map = guild_map /\ c.start_time_map = start_time_map
             THEN gs \cap last.rebuilt ELSE {},
   superseded |-> {g \in gs : \E i \in DOMAIN task_map[g] : task_map[g][i].pc = "sleep"},
   phase |-> "none", pre |-> None]

\* the final-call subscriptions whose role exists, by link, with the send
\* time and the start time their tasks hold, and the fire times still ahead
\* of the reminder tasks
Pending(g) ==
  [final |-> {<<l, finaltasks[g][l].send_time,
                get_values_from_embed(finaltasks[g][l].embed).start_time>> :
                l \in {k \in DOMAIN finalcall_map[g] \cap DOMAIN finaltasks[g] :
                         get_role(g, finalcall_map[g][k].role_id) # None}},
   fires |-> {task_map[g][i].send_time :
                i \in {j \in DOMAIN task_map[g] :
                         IsLive(task_map[g][j]) /\ task_map[g][j].send_time > now}}]

Idle == [pc |-> "idle"]

Constructed ==
  /\ started = FALSE
  /\ next_update = Unset
  /\ start_time_map = EmptyDict
  /\ guild_map = [g \in Guilds |-> get_default_guild_settings]
  /\ task_map = [g \in Guilds |-> <<>>]
  /\ stray = [g \in Guilds |-> {}]
  /\ finalcall_map = [g \in Guilds |-> EmptyDict]
  /\ finaltasks = [g \in Guilds |-> EmptyDict]
  /\ stray_final = [g \in Guilds |-> {}]
  /\ handler = [m \in Members |-> Idle]
  /\ views = NoViews

NoPolicyTest ==
  /\ pf_round = None
  /\ pf_websites = None
  /\ pf_result = None

\* the platform and the clock when the process comes up for the first time
Deployed ==
  /\ now = 0
  /\ guilds = <<"g1">>
  /\ chan_log = [g \in Guilds |-> <<>>]
  /\ reactions = [g \in Guilds |-> <<>>]
  /\ final_log = [g \in Guilds |-> <<>>]
  /\ channels = [g \in Guilds |-> {RemindChannel, FinalChannel}]
  /\ roles = [g \in Guilds |-> {RemindRole}]
  /\ role_calls = [create |-> 0, delete |-> EmptyDict]
  /\ member_roles = [m \in Members |-> {}]
  /\ disk = NoFile
  /\ last = NoRebuild
  /\ armed = [g \in Guilds |-> {}]

Init ==
  /\ Constructed
  /\ NoPolicyTest
  /\ db \in ContestFiles
  /\ clist = FreshCache
  /\ Deployed

\* the cog's state after a synchronous stretch of code
Commit(c) ==
  /\ start_time_map' = c.start_time_map
  /\ guild_map' = c.guild_map
  /\ task_map' = c.task_map
  /\ stray' = c.stray
  /\ finalcall_map' = c.finalcall_map
  /\ finaltasks' = c.finaltasks
  /\ stray_final' = c.stray_final
  /\ disk' = c.disk
  /\ armed' = c.armed

platformVars == <<chan_log, reactions, final_log, channels, roles, role_calls, member_roles>>
cogVars == <<start_time_map, guild_map, task_map, stray, finalcall_map, finaltasks, stray_final, disk, armed>>

(***************************************************************************)
(* on_ready: load the snapshot, whatever goes wrong is swallowed, and      *)
(* start the refresh loop.                                                 *)
(***************************************************************************)
\* pickle.load and the two keys of the pickled dict
loads(file) == file.exists /\ {"guild_map", "finalcall_map"} \subseteq DOMAIN file

\* guild_settings._asdict(): the entry is a settings record
converts(entry) == "remind_before" \in DOMAIN entry

\* the order of guild_map.items()
GuildOrder == <<"g1", "g2">>

\* the loop over the pickled settings: entry after entry goes into guild_map
\* until one raises
RECURSIVE load_guild_map(_, _, _)
load_guild_map(gm, pickled, gs) ==
  IF gs = <<>> THEN gm
  ELSE IF ~converts(pickled[Head(gs)]) THEN gm
  ELSE load_guild_map([gm EXCEPT ![Head(gs)] = pickled[Head(gs)]], pickled, Tail(gs))

on_ready ==
  /\ ~started
  /\ started' = TRUE
  /\ next_update' = now
  /\ IF ~loads(disk)
     THEN UNCHANGED <<guild_map, finalcall_map>>
     ELSE /\ guild_map' = load_guild_map(guild_map, disk.guild_map, GuildOrder)
          /\ finalcall_map' = disk.finalcall_map
  /\ last' = IF last.phase = "restart" THEN [last EXCEPT !.phase = "ready"] ELSE NoRebuild
  /\ UNCHANGED <<now, guilds, db, clist, views, start_time_map, task_map, stray, finaltasks, stray_final, disk, armed, handler>>
  /\ UNCHANGED platformVars
  /\ UNCHANGED pfVars

(***************************************************************************)
(* _update_task: one iteration of the refresh loop.  The contests that     *)
(* have not started are grouped by start time, every guild is rebuilt,     *)
(* and the loop sleeps _CONTEST_REFRESH_PERIOD; an exception ends it.      *)
(***************************************************************************)
_CONTEST_REFRESH_PERIOD == 2

_update_task ==
  /\ started
  /\ next_update # Unset
  /\ now >= next_update
  /\ \E answer \in (IF is_fresh(FALSE) THEN {ClientError} ELSE ApiAnswers) :
       LET file == cache(FALSE, answer)
           loaded == file.clist.exists /\ cache_loads(file.db)
           c == IF loaded
                THEN _reschedule_all_tasks(
                       [Cog EXCEPT !.start_time_map = new_start_time_map(file.db)], guilds)
                ELSE [Cog EXCEPT !.raised = TRUE]
       IN /\ db' = file.db
          /\ clist' = file.clist
          /\ Commit(c)
          /\ views' = IF loaded THEN current_views(file.db) ELSE views
          /\ next_update' = IF c.raised THEN Unset ELSE now + _CONTEST_REFRESH_PERIOD
          /\ last' = IF last.phase = "ready"
                     THEN [last EXCEPT !.phase = "reconciled"]
                     ELSE Rebuild(IF c.raised THEN {} ELSE Range(guilds), c)
  /\ UNCHANGED <<now, started, guilds, handler>>
  /\ UNCHANGED platformVars
  /\ UNCHANGED pfVars

(***************************************************************************)
(* Commands.  Each is followed by cog_after_invoke for its guild.          *)
(***************************************************************************)
Command(c, g) ==
  /\ started
  /\ LET c2 == cog_after_invoke(c, g)
     IN /\ Commit(c2)
        /\ last' = Rebuild({g}, c)
  /\ UNCHANGED <<now, started, next_update, guilds, db, clist, views, handler>>
  /\ UNCHANGED platformVars
  /\ UNCHANGED pfVars

\* t;remind here <role> <before...>, given in RemindChannel with RemindRole
set_remind_settings(g, before) ==
  /\ before # <<>>
  /\ \A i \in DOMAIN before : ~(before[i] < 0)
  /\ Command([Cog EXCEPT !.guild_map[g].remind_channel_id = RemindChannel,
                         !.guild_map[g].remind_role_id = RemindRole,
                         !.guild_map[g].remind_before = sorted_reverse(before),
                         !.armed[g] = {}],
             g)

\* t;final here <before>, given in FinalChannel
set_finalcall_settings(g, before) ==
  /\ before # 0
  /\ ~(before < 0)
  /\ Command([Cog EXCEPT !.guild_map[g].finalcall_before = before,
                         !.guild_map[g].finalcall_channel_id = FinalChannel,
                         !.armed[g] = {}],
             g)

\* t;settz <timezone>
settz(g, timezone) ==
  /\ timezone \in TimeZones
  /\ Command([Cog EXCEPT !.guild_map[g].localtimezone = timezone, !.armed[g] = {}], g)

\* t;settings, t;clist ..., or a command that raised before changing anything
settings(g) == Command(Cog, g)

\* t;remind clear: del guild_map[guild]; the defaultdict gives the guild the
\* default settings back at the next read
clear(g) ==
  Command([Cog EXCEPT !.guild_map[g] = get_default_guild_settings, !.armed[g] = {}], g)

\* a variant that puts a new WebsitePatterns in the place of the entry
_set_guild_setting_new_entry(c, g, website, unsubscribe) ==
  [c EXCEPT !.guild_map[g].website_patterns[website] =
              IF unsubscribe THEN WebsitePatterns(<<>>, << <<>> >>)
              ELSE WebsitePatterns(schema[website].allowed_patterns,
                                   schema[website].disallowed_patterns),
            !.armed[g] = {}]

\* _set_guild_setting for one website, by t;remind subscribe / unsubscribe:
\* the two lists of the website's entry are assigned
_set_guild_setting(c, g, website, unsubscribe) ==
  [c EXCEPT !.guild_map[g].website_patterns[website].allowed_patterns =
              IF unsubscribe THEN <<>> ELSE schema[website].allowed_patterns,
            !.guild_map[g].website_patterns[website].disallowed_patterns =
              IF unsubscribe THEN << <<>> >> ELSE schema[website].disallowed_patterns,
            !.armed[g] = {}]

subscribe(g, website) == Command(_set_guild_setting(Cog, g, website, FALSE), g)

unsubscribe(g, website) == Command(_set_guild_setting(Cog, g, website, TRUE), g)

(***************************************************************************)
(* _send_reminder_at, step by step between its suspension points.          *)
(***************************************************************************)
\* the first step: no sleep and no notice when the fire time is not ahead
reminder_start(request) ==
  IF request.send_time - now <= 0 THEN [request EXCEPT !.pc = "done"]
  ELSE [request EXCEPT !.pc = "sleep"]

\* tasks start in the order create_task was called
ReminderStart(g, i) ==
  /\ task_map[g][i].pc = "new"
  /\ \A j \in 1..(i - 1) : task_map[g][j].pc # "new"
  /\ task_map' = [task_map EXCEPT ![g][i] = reminder_start(@)]
  /\ last' = NoRebuild
  /\ UNCHANGED <<now, started, next_update, guilds, db, clist, views, start_time_map, guild_map, stray, finalcall_map, finaltasks, stray_final, disk, armed, handler>>
  /\ UNCHANGED platformVars
  /\ UNCHANGED pfVars

\* asyncio.sleep(delay) is over: the notice is built and channel.send awaited
ReminderWake(g, i) ==
  /\ task_map[g][i].pc = "sleep"
  /\ now >= task_map[g][i].send_time
  /\ task_map' = [task_map EXCEPT ![g][i].pc =
                    IF task_map[g][i].channel = None \/ task_map[g][i].role = None
                    THEN "failed" ELSE "send"]
  /\ last' = NoRebuild
  /\ UNCHANGED <<now, started, next_update, guilds, db, clist, views, start_time_map, guild_map, stray, finalcall_map, finaltasks, stray_final, disk, armed, handler>>
  /\ UNCHANGED platformVars
  /\ UNCHANGED pfVars

\* the transport posts the notice and the task ends
ReminderDeliver(g, i) ==
  /\ task_map[g][i].pc = "send"
  /\ task_map' = [task_map EXCEPT ![g][i].pc = "done"]
  /\ chan_log' = [chan_log EXCEPT ![g] = Append(@, reminder_embed(task_map[g][i]))]
  /\ reactions' = [reactions EXCEPT ![g] = Append(@, {})]
  /\ last' = NoRebuild
  /\ UNCHANGED <<now, started, next_update, guilds, db, clist, views, start_time_map, guild_map, stray, finalcall_map, finaltasks, stray_final, disk, armed, handler>>
  /\ UNCHANGED <<final_log, channels, roles, role_calls, member_roles>>
  /\ UNCHANGED pfVars

(***************************************************************************)
(* send_finalcall_reminder, step by step between its suspension points.    *)
(* A task is stepped whether the cog still refers to it or not.            *)
(***************************************************************************)
FinalTasksOf(g) == Range(finaltasks[g]) \cup stray_final[g]

Registered(ft, t) == t.link \in DOMAIN ft /\ ft[t.link] = t

\* the task t of guild g has become t2, the guild's subscription table fm and
\* its task registry ft; save: _serialize_guild_map was called
FinalCommit(g, t, t2, fm, ft, save) ==
  /\ finalcall_map' = [finalcall_map EXCEPT ![g] = fm]
  /\ finaltasks' = [finaltasks EXCEPT ![g] =
                      IF Registered(ft, t) THEN [ft EXCEPT ![t.link] = t2] ELSE ft]
  /\ stray_final' = [stray_final EXCEPT ![g] =
                       (@ \ {t}) \cup (IF ~Registered(ft, t) /\ IsLive(t2) THEN {t2} ELSE {})]
  /\ disk' = IF save THEN Snapshot(guild_map, finalcall_map') ELSE disk
  /\ last' = NoRebuild
  /\ UNCHANGED <<now, started, next_update, guilds, db, clist, views, start_time_map, guild_map, task_map, stray, armed, handler>>
  /\ UNCHANGED pfVars

time_to_contest(g, t) ==
  IF t.send_time + guild_map[g].finalcall_before - now > 0
  THEN t.send_time + guild_map[g].finalcall_before - now ELSE 0

\* the first step: sleep till the ping time, or straight on to the second sleep
FinalStart(g, t) ==
  /\ t.pc = "new"
  /\ FinalCommit(g, t,
       IF t.send_time - now >= 0 THEN [t EXCEPT !.pc = "sleep1", !.wake = t.send_time]
       ELSE IF guild_map[g].finalcall_before = Unset THEN [t EXCEPT !.pc = "failed"]
       ELSE [t EXCEPT !.pc = "sleep2", !.wake = now + time_to_contest(g, t)],
       finalcall_map[g], finaltasks[g], FALSE)
  /\ UNCHANGED platformVars

\* the first sleep is over: the notice is sent to the final-call channel
FinalWake(g, t) ==
  /\ t.pc = "sleep1"
  /\ now >= t.wake
  /\ Len(final_log[g]) < MaxNotices
  /\ FinalCommit(g, t,
       IF guild_map[g].finalcall_before = Unset
            \/ get_channel(g, guild_map[g].finalcall_channel_id) = None
       THEN [t EXCEPT !.pc = "failed"] ELSE [t EXCEPT !.pc = "send"],
       finalcall_map[g], finaltasks[g], FALSE)
  /\ UNCHANGED platformVars

\* the transport posted the notice: its id goes into the subscription, the
\* snapshot is written, the task sleeps till the contest starts
FinalSent(g, t) ==
  /\ t.pc = "send"
  /\ final_log' = [final_log EXCEPT ![g] = Append(@, [role |-> t.role, link |-> t.link])]
  /\ IF t.link \in DOMAIN finalcall_map[g]
     THEN FinalCommit(g, t, [t EXCEPT !.pc = "sleep2", !.wake = now + time_to_contest(g, t)],
                      [finalcall_map[g] EXCEPT ![t.link].msg_id = Len(final_log'[g])],
                      finaltasks[g], TRUE)
     ELSE FinalCommit(g, t, [t EXCEPT !.pc = "failed"], finalcall_map[g], finaltasks[g], FALSE)
  /\ UNCHANGED <<chan_log, reactions, channels, roles, role_calls, member_roles>>

\* the second sleep is over: with a subscription left the notice is fetched
\* for its edit, without one the role is deleted straight away
FinalCleanup(g, t) ==
  /\ t.pc = "sleep2"
  /\ now >= t.wake
  /\ FinalCommit(g, t,
       IF t.link \in DOMAIN finalcall_map[g]
       THEN IF finalcall_map[g][t.link].msg_id = Unset
                 \/ get_channel(g, guild_map[g].finalcall_channel_id) = None
            THEN [t EXCEPT !.pc = "failed"] ELSE [t EXCEPT !.pc = "edit"]
       ELSE [t EXCEPT !.pc = "delete"],
       finalcall_map[g], finaltasks[g], FALSE)
  /\ UNCHANGED platformVars

\* the notice was edited: the subscription and the registered task go, and
\* role.delete() is awaited
FinalEdited(g, t) ==
  /\ t.pc = "edit"
  /\ IF t.link \in DOMAIN finalcall_map[g] /\ t.link \in DOMAIN finaltasks[g]
     THEN FinalCommit(g, t, [t EXCEPT !.pc = "delete"],
                      DictDel(finalcall_map[g], t.link), DictDel(finaltasks[g], t.link), FALSE)
     ELSE FinalCommit(g, t, [t EXCEPT !.pc = "failed"],
                      DictDel(finalcall_map[g], t.link), finaltasks[g], FALSE)
  /\ UNCHANGED platformVars

\* the platform's answer to deleteRole: the role goes, from its members too
delete_role(g, role) ==
  /\ role_calls' = [role_calls EXCEPT !.delete =
                      DictSet(@, role, IF role \in DOMAIN @ THEN @[role] + 1 ELSE 1)]
  /\ roles' = [roles EXCEPT ![g] = @ \ {role}]
  /\ member_roles' = [m \in Members |-> member_roles[m] \ {role}]

\* role.delete() returned, or raised because the role was gone already
FinalRoleDeleted(g, t) ==
  /\ t.pc = "delete"
  /\ delete_role(g, t.role)
  /\ IF t.role \in roles[g]
     THEN FinalCommit(g, t, [t EXCEPT !.pc = "done"], finalcall_map[g], finaltasks[g], TRUE)
     ELSE FinalCommit(g, t, [t EXCEPT !.pc = "failed"], finalcall_map[g], finaltasks[g], FALSE)
  /\ UNCHANGED <<chan_log, reactions, final_log, channels>>

(***************************************************************************)
(* on_raw_reaction_add and on_raw_reaction_remove, one handler per         *)
(* reaction event, step by step between their suspension points.           *)
(***************************************************************************)
\* the ids the platform gives to the roles it creates, in order
RoleIds == <<"final-role-1", "final-role-2", "final-role-3", "final-role-4">>

\* the notices a member may react to, and the members who take a reaction
\* back
ReactMsgs == {1}
OptOutMembers == {"m1"}

\* the members that are accounts of service bots (member.bot): the handlers
\* and do_validation_check never read the flag
ServiceBots == {"m2"}

\* no reaction handler is in flight: the moments at which commands are given
\* and the process is restarted
Quiet == \A m \in Members : handler[m] = Idle

\* do_validation_check up to fetch_message
validation_passes(g) ==
  /\ guild_map[g].remind_channel_id # None
  /\ guild_map[g].remind_channel_id = RemindChannel
  /\ guild_map[g].finalcall_channel_id # None

\* the handler of member m goes on as h; note: what the history keeps of it
HandlerNote(m, h, note) ==
  /\ handler' = [handler EXCEPT ![m] = h]
  /\ last' = note
  /\ UNCHANGED <<now, started, next_update, guilds, db, clist, views, start_time_map, guild_map, task_map, stray, armed>>
  /\ UNCHANGED pfVars

HandlerCommit(m, h) == HandlerNote(m, h, NoRebuild)

\* get_finalcall_taskrole(guild_id, embed, remove=True): the role of the
\* subscription, None without one
taskrole_or_any(g, link) ==
  IF link \in DOMAIN finalcall_map[g]
  THEN get_role(g, finalcall_map[g][link].role_id) ELSE RemindRole

taskrole(g, link) ==
  IF link \in DOMAIN finalcall_map[g]
  THEN get_role(g, finalcall_map[g][link].role_id) ELSE None

\* a member adds the reaction to a notice of the reminder channel
ReactAdd(g, m, msg) ==
  /\ started
  /\ handler[m] = Idle
  /\ msg \in DOMAIN chan_log[g]
  /\ m \notin reactions[g][msg]
  /\ reactions' = [reactions EXCEPT ![g][msg] = @ \cup {m}]
  /\ HandlerCommit(m, IF validation_passes(g)
                      THEN [pc |-> "fetch", g |-> g, msg |-> msg] ELSE Idle)
  /\ UNCHANGED <<finalcall_map, finaltasks, stray_final, disk>>
  /\ UNCHANGED <<chan_log, final_log, channels, roles, role_calls, member_roles>>

\* a member takes the reaction back
ReactRemove(g, m, msg) ==
  /\ started
  /\ handler[m] = Idle
  /\ msg \in DOMAIN chan_log[g]
  /\ m \in reactions[g][msg]
  /\ reactions' = [reactions EXCEPT ![g][msg] = @ \ {m}]
  /\ HandlerCommit(m, IF validation_passes(g)
                      THEN [pc |-> "rfetch", g |-> g, msg |-> msg] ELSE Idle)
  /\ UNCHANGED <<finalcall_map, finaltasks, stray_final, disk>>
  /\ UNCHANGED <<chan_log, final_log, channels, roles, role_calls, member_roles>>

\* on_raw_reaction_add after fetch_message, up to create_role or add_roles
AddFetched(m) ==
  LET h == handler[m]
      g == h.g
      embed == chan_log[g][h.msg]
      values == get_values_from_embed(embed)
      send_time == values.start_time - guild_map[g].finalcall_before
      link == values.link
  IN /\ h.pc = "fetch"
     /\ HandlerCommit(m,
          IF guild_map[g].finalcall_before = Unset \/ send_time < now THEN Idle
          ELSE IF link \in DOMAIN finalcall_map[g]
          THEN IF get_role(g, finalcall_map[g][link].role_id) = None THEN Idle
               ELSE [pc |-> "grant", g |-> g, role |-> finalcall_map[g][link].role_id,
                     send_time |-> send_time]
          ELSE IF send_time > now
          THEN [pc |-> "create", g |-> g, embed |-> embed, send_time |-> send_time,
                link |-> link]
          ELSE Idle)
     /\ UNCHANGED <<finalcall_map, finaltasks, stray_final, disk>>
     /\ UNCHANGED platformVars

\* get_finalcall_taskrole after create_role: the delivery task is created
\* and entered, with the subscription, under the link
AddCreated(m) ==
  LET h == handler[m]
      g == h.g
      role == RoleIds[role_calls.create + 1]
      task == FinalCallTask(h.embed, role, h.send_time, h.link)
      old == IF h.link \in DOMAIN finaltasks[g] /\ IsLive(finaltasks[g][h.link])
             THEN {finaltasks[g][h.link]} ELSE {}
  IN /\ h.pc = "create"
     /\ role_calls.create < MaxRoles
     /\ role_calls' = [role_calls EXCEPT !.create = @ + 1]
     /\ roles' = [roles EXCEPT ![g] = @ \cup {role}]
     /\ finalcall_map' = [finalcall_map EXCEPT ![g] =
                            DictSet(@, h.link, FinalCallRequest(h.embed, role, Unset))]
     /\ finaltasks' = [finaltasks EXCEPT ![g] = DictSet(@, h.link, task)]
     /\ stray_final' = [stray_final EXCEPT ![g] = @ \cup old]
     /\ HandlerCommit(m, [pc |-> "grant", g |-> g, role |-> role, send_time |-> h.send_time])
     /\ UNCHANGED <<disk, chan_log, reactions, final_log, channels, member_roles>>

\* member.add_roles returned, or raised because the role is gone
AddGranted(m) ==
  LET h == handler[m]
  IN /\ h.pc = "grant"
     /\ IF h.role \in roles[h.g]
        THEN /\ member_roles' = [member_roles EXCEPT ![m] = @ \cup {h.role}]
             /\ HandlerCommit(m, [pc |-> "dm", g |-> h.g])
        ELSE /\ UNCHANGED member_roles
             /\ HandlerCommit(m, Idle)
     /\ UNCHANGED <<finalcall_map, finaltasks, stray_final, disk>>
     /\ UNCHANGED <<chan_log, reactions, final_log, channels, roles, role_calls>>

\* create_dm returned: the snapshot is written and the member is told
AddNotified(m) ==
  /\ handler[m].pc = "dm"
  /\ disk' = Snapshot(guild_map, finalcall_map)
  /\ HandlerCommit(m, Idle)
  /\ UNCHANGED <<finalcall_map, finaltasks, stray_final>>
  /\ UNCHANGED platformVars

\* on_raw_reaction_remove after fetch_message, up to remove_roles; the
\* reaction count is the one of the fetched message
RemoveFetched(m) ==
  LET h == handler[m]
      g == h.g
      embed == chan_log[g][h.msg]
      link == get_values_from_embed(embed).link
      role == taskrole(g, link)
  IN /\ h.pc = "rfetch"
     /\ HandlerNote(m,
          IF guild_map[g].finalcall_before = Unset \/ role = None THEN Idle
          ELSE [pc |-> "rremove", g |-> g, role |-> role, link |-> link,
                reaction_count |-> Cardinality(reactions[g][h.msg])],
          IF link \in DOMAIN finalcall_map[g] THEN NoRebuild
          ELSE [NoRebuild EXCEPT !.phase = "optout-noop"])
     /\ UNCHANGED <<finalcall_map, finaltasks, stray_final, disk>>
     /\ UNCHANGED platformVars

\* member.remove_roles returned, or raised because the role is gone
RemoveRevoked(m) ==
  LET h == handler[m]
  IN /\ h.pc = "rremove"
     /\ IF h.role \in roles[h.g]
        THEN /\ member_roles' = [member_roles EXCEPT ![m] = @ \ {h.role}]
             /\ HandlerCommit(m, [h EXCEPT !.pc = "rdm"])
        ELSE /\ UNCHANGED member_roles
             /\ HandlerCommit(m, Idle)
     /\ UNCHANGED <<finalcall_map, finaltasks, stray_final, disk>>
     /\ UNCHANGED <<chan_log, reactions, final_log, channels, roles, role_calls>>

\* the member was told: with no reaction left the subscription is torn down
\* and role.delete() awaited, otherwise the snapshot is written
RemoveNotified(m) ==
  LET h == handler[m]
      g == h.g
      subscribed == h.link \in DOMAIN finalcall_map[g]
  IN /\ h.pc = "rdm"
     /\ IF h.reaction_count = 0 /\ subscribed /\ h.link \notin DOMAIN finaltasks[g]
        THEN \* KeyError: the handler ends here
             /\ HandlerCommit(m, Idle)
             /\ UNCHANGED <<finalcall_map, finaltasks, stray_final, disk>>
        ELSE IF h.reaction_count = 0
        THEN /\ finalcall_map' = [finalcall_map EXCEPT ![g] = DictDel(@, h.link)]
             /\ finaltasks' = [finaltasks EXCEPT ![g] =
                                 IF subscribed THEN DictDel(@, h.link) ELSE @]
             /\ stray_final' = [stray_final EXCEPT ![g] =
                                  @ \cup (IF subscribed /\ h.link \in DOMAIN finaltasks[g]
                                             /\ IsLive(cancel(finaltasks[g][h.link]))
                                          THEN {cancel(finaltasks[g][h.link])} ELSE {})]
             /\ HandlerCommit(m, [h EXCEPT !.pc = "rdelete"])
             /\ UNCHANGED disk
        ELSE /\ disk' = Snapshot(guild_map, finalcall_map)
             /\ HandlerCommit(m, Idle)
             /\ UNCHANGED <<finalcall_map, finaltasks, stray_final>>
     /\ UNCHANGED platformVars

\* role.delete() returned, or raised because the role was gone already
RemoveRoleDeleted(m) ==
  LET h == handler[m]
  IN /\ h.pc = "rdelete"
     /\ delete_role(h.g, h.role)
     /\ disk' = IF h.role \in roles[h.g] THEN Snapshot(guild_map, finalcall_map) ELSE disk
     /\ HandlerCommit(m, Idle)
     /\ UNCHANGED <<finalcall_map, finaltasks, stray_final>>
     /\ UNCHANGED <<chan_log, reactions, final_log, channels>>

(***************************************************************************)
(* The process goes down and comes up again: the snapshot is written, the  *)
(* tasks and handlers of the old process are gone, the new process starts  *)
(* from __init__.  It goes down once its own startup is over: the refresh  *)
(* loop has run and sleeps.                                                *)
(***************************************************************************)
Restart ==
  /\ started
  /\ next_update # Unset
  /\ next_update > now
  /\ disk' = Snapshot(guild_map, finalcall_map)
  /\ started' = FALSE
  /\ next_update' = Unset
  /\ start_time_map' = EmptyDict
  /\ guild_map' = [g \in Guilds |-> get_default_guild_settings]
  /\ task_map' = [g \in Guilds |-> <<>>]
  /\ stray' = [g \in Guilds |-> {}]
  /\ finalcall_map' = [g \in Guilds |-> EmptyDict]
  /\ finaltasks' = [g \in Guilds |-> EmptyDict]
  /\ stray_final' = [g \in Guilds |-> {}]
  /\ handler' = [m \in Members |-> Idle]
  /\ views' = NoViews
  /\ armed' = [g \in Guilds |-> {}]
  /\ last' = [NoRebuild EXCEPT !.phase = "restart", !.pre = [g \in Guilds |-> Pending(g)]]
  /\ UNCHANGED <<now, guilds, db, clist>>
  /\ UNCHANGED platformVars
  /\ UNCHANGED pfVars

\* the clock advances while the process is down
Downtime ==
  /\ ~started
  /\ now < MaxTime
  /\ now' = now + 1
  /\ UNCHANGED <<started, next_update, guilds, db, clist, views, handler, last>>
  /\ UNCHANGED cogVars
  /\ UNCHANGED platformVars
  /\ UNCHANGED pfVars

\* The clock advances.  A process that has come up runs on_ready, and a task
\* that was created takes its first step, before a whole tick has passed; a
\* sleep that is over wakes its task, and a call to the transport returns,
\* within the tick.
Tick ==
  /\ now < MaxTime
  /\ started
  /\ next_update # Unset => next_update > now
  /\ \A g \in Guilds : \A i \in DOMAIN task_map[g] :
       /\ task_map[g][i].pc \notin {"new", "send"}
       /\ task_map[g][i].pc = "sleep" => task_map[g][i].send_time > now
  /\ \A g \in Guilds : \A t \in FinalTasksOf(g) :
       /\ t.pc \notin {"new", "send", "edit", "delete"}
       /\ t.pc \in {"sleep1", "sleep2"} => t.wake > now
  /\ \A m \in Members : handler[m] = Idle
  /\ now' = now + 1
  /\ last' = NoRebuild
  /\ UNCHANGED <<started, next_update, guilds, db, clist, views, handler>>
  /\ UNCHANGED cogVars
  /\ UNCHANGED platformVars
  /\ UNCHANGED pfVars

(***************************************************************************)
(* The reminder scheduler of one community.                                *)
(***************************************************************************)
PolicyArgs == {"codechef.com"}

NextRemind ==
  \/ on_ready
  \/ _update_task
  \/ Tick
  \/ \E g \in Range(guilds) :
       \/ \E before \in BeforeArgs : set_remind_settings(g, before)
       \/ settings(g)
       \/ \E website \in PolicyArgs : subscribe(g, website)
       \/ \E website \in PolicyArgs : unsubscribe(g, website)
       \/ \E i \in DOMAIN task_map[g] : ReminderStart(g, i)
       \/ \E i \in DOMAIN task_map[g] : ReminderWake(g, i)
       \/ \E i \in DOMAIN task_map[g] : ReminderDeliver(g, i)

SpecRemind == Init /\ [][NextRemind]_vars

(***************************************************************************)
(* The reminder scheduler when things around it go wrong: a record of the  *)
(* contest file that does not parse, the reminder channel or role deleted  *)
(* on the platform, the event loop held up while a task is due.            *)
(***************************************************************************)
LastStart == CHOOSE s \in StartTimes : \A t \in StartTimes : t <= s

FinalContests == <<Round("cf/1", "codeforces.com", <<"R">>, LastStart)>>

FaultFiles ==
  {FinalContests, FinalContests \o <<Round("cf/3", "codeforces.com", <<"R">>, Unset)>>}

\* the lead times given to `remind here`: one that can be met at any time
\* before the start, one that is past a tick earlier
FaultArgs == {<<MaxBefore>>, <<MaxBefore + 1>>}

\* the role given to `remind here` is deleted on the platform
RoleRemoved(g) ==
  /\ started
  /\ RemindRole \in roles[g]
  /\ roles' = [roles EXCEPT ![g] = @ \ {RemindRole}]
  /\ last' = NoRebuild
  /\ UNCHANGED <<now, started, next_update, guilds, db, clist, views, handler>>
  /\ UNCHANGED cogVars
  /\ UNCHANGED <<chan_log, reactions, final_log, channels, role_calls, member_roles>>
  /\ UNCHANGED pfVars

\* the channel `remind here` was given in is deleted on the platform
ChannelRemoved(g) ==
  /\ started
  /\ RemindChannel \in channels[g]
  /\ channels' = [channels EXCEPT ![g] = @ \ {RemindChannel}]
  /\ last' = NoRebuild
  /\ UNCHANGED <<now, started, next_update, guilds, db, clist, views, handler>>
  /\ UNCHANGED cogVars
  /\ UNCHANGED <<chan_log, reactions, final_log, roles, role_calls, member_roles>>
  /\ UNCHANGED pfVars

\* the event loop is held up while the sleep of a task is over: the clock
\* advances and the task has not been resumed
HeldUp ==
  /\ now < MaxTime
  /\ started
  /\ \E g \in Guilds : \E i \in DOMAIN task_map[g] :
       task_map[g][i].pc = "sleep" /\ task_map[g][i].send_time <= now
  /\ now' = now + 1
  /\ last' = NoRebuild
  /\ UNCHANGED <<started, next_update, guilds, db, clist, views, handler>>
  /\ UNCHANGED cogVars
  /\ UNCHANGED platformVars
  /\ UNCHANGED pfVars

InitFaults ==
  /\ Constructed
  /\ NoPolicyTest
  /\ db \in FaultFiles
  /\ clist = FreshCache
  /\ Deployed

NextFaults ==
  \/ on_ready
  \/ _update_task
  \/ Tick
  \/ HeldUp
  \/ \E g \in Range(guilds) :
       \/ \E before \in FaultArgs : set_remind_settings(g, before)
       \/ RoleRemoved(g)
       \/ ChannelRemoved(g)
       \/ \E i \in DOMAIN task_map[g] : ReminderStart(g, i)
       \/ \E i \in DOMAIN task_map[g] : ReminderWake(g, i)
       \/ \E i \in DOMAIN task_map[g] : ReminderDeliver(g, i)

SpecFaults == InitFaults /\ [][NextFaults]_vars

(***************************************************************************)
(* The refresh and the contest file: absent, or written a while ago; the   *)
(* API answers or fails.                                                   *)
(***************************************************************************)
\* the `querytime` of the file when the process comes up: a window ago, less
\* than a window ago by one refresh period, or now
CacheStamps == {Epoch, _CONTEST_REFRESH_PERIOD - _CLIST_API_TIME_DIFFERENCE, 0}

InitCache ==
  /\ Constructed
  /\ NoPolicyTest
  /\ \/ db = <<>> /\ clist = CacheFile(FALSE, 0)
     \/ db = FinalContests /\ \E querytime \in CacheStamps : clist = CacheFile(TRUE, querytime)
  /\ Deployed

NextCache ==
  \/ on_ready
  \/ _update_task
  \/ Tick
  \/ \E g \in Range(guilds) :
       \/ \E before \in FaultArgs : set_remind_settings(g, before)
       \/ \E i \in DOMAIN task_map[g] : ReminderStart(g, i)
       \/ \E i \in DOMAIN task_map[g] : ReminderWake(g, i)
       \/ \E i \in DOMAIN task_map[g] : ReminderDeliver(g, i)

SpecCache == InitCache /\ [][NextCache]_vars

(***************************************************************************)
(* The three lists of the refresh on a file of rounds that start and end   *)
(* all along the run, some at the same time, in one order or another.      *)
(***************************************************************************)
TimedRound(url, start_time, duration) ==
  [Round(url, "codeforces.com", <<"R">>, start_time) EXCEPT !.duration = duration]

ViewRounds ==
  <<TimedRound("cf/1", 0, 0), TimedRound("cf/2", 3, 1), TimedRound("cf/3", 1, 1),
    TimedRound("cf/4", MaxTime + 1, 1), TimedRound("cf/5", 0, 1), TimedRound("cf/6", 1, 0)>>

Reverse(seq) == [i \in DOMAIN seq |-> seq[Len(seq) + 1 - i]]

ViewFiles == {ViewRounds, Reverse(ViewRounds)}

InitViews ==
  /\ Constructed
  /\ NoPolicyTest
  /\ db \in ViewFiles
  /\ clist = FreshCache
  /\ Deployed

NextViews ==
  \/ on_ready
  \/ _update_task
  \/ Tick
  \/ \E g \in Range(guilds) :
       \/ \E before \in FaultArgs : set_remind_settings(g, before)
       \/ \E i \in DOMAIN task_map[g] : ReminderStart(g, i)
       \/ \E i \in DOMAIN task_map[g] : ReminderWake(g, i)
       \/ \E i \in DOMAIN task_map[g] : ReminderDeliver(g, i)

SpecViews == InitViews /\ [][NextViews]_vars

(***************************************************************************)
(* The final call of one contest.  The start state is the one reached from *)
(* Init by on_ready and the first refresh, t;final here 1 and              *)
(* t;remind here <role> 2 at time LastStart - 3, and the delivery of the   *)
(* notice one tick later.                                                  *)
(***************************************************************************)
InitFinal ==
  /\ NoPolicyTest
  /\ now = LastStart - 2
  /\ started = TRUE
  /\ next_update = _CONTEST_REFRESH_PERIOD
  /\ guilds = <<"g1">>
  /\ db = FinalContests
  /\ clist = FreshCache
  /\ views = [future |-> FinalContests, active |-> <<>>, finished |-> <<>>]
  /\ start_time_map = [s \in {LastStart} |-> FinalContests]
  /\ LET tz == get_default_guild_settings.localtimezone IN
       /\ guild_map = [g \in Guilds |->
            IF g = "g1"
            THEN [get_default_guild_settings EXCEPT
                    !.remind_channel_id = RemindChannel, !.remind_role_id = RemindRole,
                    !.remind_before = <<2>>, !.finalcall_channel_id = FinalChannel,
                    !.finalcall_before = 1, !.localtimezone = tz]
            ELSE get_default_guild_settings]
       /\ task_map = [g \in Guilds |->
            IF g = "g1"
            THEN <<[RemindRequest(RemindChannel, RemindRole, FinalContests, 2,
                                  LastStart - 2, tz) EXCEPT !.pc = "done"]>>
            ELSE <<>>]
  /\ chan_log = [g \in Guilds |->
       IF g = "g1" THEN <<reminder_embed(task_map[g][1])>> ELSE <<>>]
  /\ reactions = [g \in Guilds |-> IF g = "g1" THEN <<{}>> ELSE <<>>]
  /\ stray = [g \in Guilds |-> {}]
  /\ finalcall_map = [g \in Guilds |-> EmptyDict]
  /\ finaltasks = [g \in Guilds |-> EmptyDict]
  /\ stray_final = [g \in Guilds |-> {}]
  /\ handler = [m \in Members |-> Idle]
  /\ final_log = [g \in Guilds |-> <<>>]
  /\ channels = [g \in Guilds |-> {RemindChannel, FinalChannel}]
  /\ roles = [g \in Guilds |-> {RemindRole}]
  /\ role_calls = [create |-> 0, delete |-> EmptyDict]
  /\ member_roles = [m \in Members |-> {}]
  /\ disk = Snapshot(guild_map, finalcall_map)
  /\ last = NoRebuild
  /\ armed = [g \in Guilds |-> IF g = "g1" THEN {<<LastStart, 2>>} ELSE {}]

NextFinal ==
  \/ on_ready
  \/ _update_task
  \/ Tick
  \/ (Quiet /\ Restart)
  \/ Downtime
  \/ \E g \in Range(guilds) :
       \/ \E timezone \in TimeZones : Quiet /\ settz(g, timezone)
       \/ \E before \in 0..MaxBefore : Quiet /\ set_finalcall_settings(g, before)
       \/ \E i \in DOMAIN task_map[g] : ReminderStart(g, i)
       \/ \E i \in DOMAIN task_map[g] : ReminderWake(g, i)
       \/ \E i \in DOMAIN task_map[g] : ReminderDeliver(g, i)
       \/ \E m \in Members, msg \in ReactMsgs : ReactAdd(g, m, msg)
       \/ \E m \in OptOutMembers, msg \in ReactMsgs : ReactRemove(g, m, msg)
       \/ \E t \in FinalTasksOf(g) : FinalStart(g, t)
       \/ \E t \in FinalTasksOf(g) : FinalWake(g, t)
       \/ \E t \in FinalTasksOf(g) : FinalSent(g, t)
       \/ \E t \in FinalTasksOf(g) : FinalCleanup(g, t)
       \/ \E t \in FinalTasksOf(g) : FinalEdited(g, t)
       \/ \E t \in FinalTasksOf(g) : FinalRoleDeleted(g, t)
  \/ \E m \in Members :
       \/ AddFetched(m)
       \/ AddCreated(m)
       \/ AddGranted(m)
       \/ AddNotified(m)
       \/ RemoveFetched(m)
       \/ RemoveRevoked(m)
       \/ RemoveNotified(m)
       \/ RemoveRoleDeleted(m)

SpecFinal == InitFinal /\ [][NextFinal]_vars

(***************************************************************************)
(* The final call of one contest with the process up throughout and its    *)
(* settings left alone: the reactions, their handlers, the delivery tasks  *)
(* and the refresh.                                                        *)
(***************************************************************************)
NextOptOut ==
  \/ _update_task
  \/ Tick
  \/ \E g \in Range(guilds) :
       \/ \E i \in DOMAIN task_map[g] : ReminderStart(g, i)
       \/ \E m \in Members, msg \in ReactMsgs : ReactAdd(g, m, msg)
       \/ \E m \in OptOutMembers, msg \in ReactMsgs : ReactRemove(g, m, msg)
       \/ \E t \in FinalTasksOf(g) : FinalStart(g, t)
       \/ \E t \in FinalTasksOf(g) : FinalWake(g, t)
       \/ \E t \in FinalTasksOf(g) : FinalSent(g, t)
       \/ \E t \in FinalTasksOf(g) : FinalCleanup(g, t)
       \/ \E t \in FinalTasksOf(g) : FinalEdited(g, t)
       \/ \E t \in FinalTasksOf(g) : FinalRoleDeleted(g, t)
  \/ \E m \in Members :
       \/ AddFetched(m)
       \/ AddCreated(m)
       \/ AddGranted(m)
       \/ AddNotified(m)
       \/ RemoveFetched(m)
       \/ RemoveRevoked(m)
       \/ RemoveNotified(m)
       \/ RemoveRoleDeleted(m)

SpecOptOut == InitFinal /\ [][NextOptOut]_vars

(***************************************************************************)
(* The final call with its lead time changed under way: the reminder was   *)
(* posted three ticks before the contest, the lead time in force is 2 and  *)
(* an admin issues t;final here <before> while members opt in.             *)
(***************************************************************************)
InitLead ==
  /\ NoPolicyTest
  /\ now = LastStart - 3
  /\ started = TRUE
  /\ next_update = _CONTEST_REFRESH_PERIOD
  /\ guilds = <<"g1">>
  /\ db = FinalContests
  /\ clist = FreshCache
  /\ views = [future |-> FinalContests, active |-> <<>>, finished |-> <<>>]
  /\ start_time_map = [s \in {LastStart} |-> FinalContests]
  /\ LET tz == get_default_guild_settings.localtimezone IN
       /\ guild_map = [g \in Guilds |->
            IF g = "g1"
            THEN [get_default_guild_settings EXCEPT
                    !.remind_channel_id = RemindChannel, !.remind_role_id = RemindRole,
                    !.remind_before = <<3>>, !.finalcall_channel_id = FinalChannel,
                    !.finalcall_before = 2, !.localtimezone = tz]
            ELSE get_default_guild_settings]
       /\ task_map = [g \in Guilds |->
            IF g = "g1"
            THEN <<[RemindRequest(RemindChannel, RemindRole, FinalContests, 3,
                                  LastStart - 3, tz) EXCEPT !.pc = "done"]>>
            ELSE <<>>]
  /\ chan_log = [g \in Guilds |->
       IF g = "g1" THEN <<reminder_embed(task_map[g][1])>> ELSE <<>>]
  /\ reactions = [g \in Guilds |-> IF g = "g1" THEN <<{}>> ELSE <<>>]
  /\ stray = [g \in Guilds |-> {}]
  /\ finalcall_map = [g \in Guilds |-> EmptyDict]
  /\ finaltasks = [g \in Guilds |-> EmptyDict]
  /\ stray_final = [g \in Guilds |-> {}]
  /\ handler = [m \in Members |-> Idle]
  /\ final_log = [g \in Guilds |-> <<>>]
  /\ channels = [g \in Guilds |-> {RemindChannel, FinalChannel}]
  /\ roles = [g \in Guilds |-> {RemindRole}]
  /\ role_calls = [create |-> 0, delete |-> EmptyDict]
  /\ member_roles = [m \in Members |-> {}]
  /\ disk = Snapshot(guild_map, finalcall_map)
  /\ last = NoRebuild
  /\ armed = [g \in Guilds |-> IF g = "g1" THEN {<<LastStart, 3>>} ELSE {}]

NextLead ==
  \/ Tick
  \/ \E g \in Range(guilds) :
       \/ \E before \in 0..(MaxBefore + 1) : Quiet /\ set_finalcall_settings(g, before)
       \/ \E i \in DOMAIN task_map[g] : ReminderStart(g, i)
       \/ \E i \in DOMAIN task_map[g] : ReminderWake(g, i)
       \/ \E i \in DOMAIN task_map[g] : ReminderDeliver(g, i)
       \/ \E m \in Members, msg \in ReactMsgs : ReactAdd(g, m, msg)
       \/ \E t \in FinalTasksOf(g) : FinalStart(g, t)
       \/ \E t \in FinalTasksOf(g) : FinalWake(g, t)
       \/ \E t \in FinalTasksOf(g) : FinalSent(g, t)
       \/ \E t \in FinalTasksOf(g) : FinalCleanup(g, t)
       \/ \E t \in FinalTasksOf(g) : FinalEdited(g, t)
       \/ \E t \in FinalTasksOf(g) : FinalRoleDeleted(g, t)
  \/ \E m \in Members :
       \/ AddFetched(m)
       \/ AddCreated(m)
       \/ AddGranted(m)
       \/ AddNotified(m)

SpecLead == InitLead /\ [][NextLead]_vars

(***************************************************************************)
(* The reconcile of the final-call subscriptions: the refresh and the      *)
(* commands of an admin, among them t;remind clear, while members opt in   *)
(* and out and scoped roles are deleted by hand on the platform.           *)
(***************************************************************************)
\* a scoped role is deleted on the platform, by somebody else than the bot
ScopedRoleRemoved(g, role) ==
  /\ started
  /\ role \in roles[g] \ {RemindRole}
  /\ roles' = [roles EXCEPT ![g] = @ \ {role}]
  /\ member_roles' = [m \in Members |-> member_roles[m] \ {role}]
  /\ last' = NoRebuild
  /\ UNCHANGED <<now, started, next_update, guilds, db, clist, views, handler>>
  /\ UNCHANGED cogVars
  /\ UNCHANGED <<chan_log, reactions, final_log, channels, role_calls>>
  /\ UNCHANGED pfVars

NextReconcile ==
  \/ _update_task
  \/ Tick
  \/ \E g \in Range(guilds) :
       \/ Quiet /\ settings(g)
       \/ Quiet /\ clear(g)
       \/ \E role \in roles[g] : ScopedRoleRemoved(g, role)
       \/ \E i \in DOMAIN task_map[g] : ReminderStart(g, i)
       \/ \E m \in Members, msg \in ReactMsgs : ReactAdd(g, m, msg)
       \/ \E m \in OptOutMembers, msg \in ReactMsgs : ReactRemove(g, m, msg)
       \/ \E t \in FinalTasksOf(g) : FinalStart(g, t)
       \/ \E t \in FinalTasksOf(g) : FinalWake(g, t)
       \/ \E t \in FinalTasksOf(g) : FinalSent(g, t)
       \/ \E t \in FinalTasksOf(g) : FinalCleanup(g, t)
       \/ \E t \in FinalTasksOf(g) : FinalEdited(g, t)
       \/ \E t \in FinalTasksOf(g) : FinalRoleDeleted(g, t)
  \/ \E m \in Members :
       \/ AddFetched(m)
       \/ AddCreated(m)
       \/ AddGranted(m)
       \/ AddNotified(m)
       \/ RemoveFetched(m)
       \/ RemoveRevoked(m)
       \/ RemoveNotified(m)
       \/ RemoveRoleDeleted(m)

SpecReconcile == InitFinal /\ [][NextReconcile]_vars

(***************************************************************************)
(* Two communities and one refresh loop.  The start state is the one of    *)
(* the final call of one contest in g1, with g2 joined and given           *)
(* t;remind here <role> 1: its reminder task sleeps.  An admin may give    *)
(* t;remind clear while the opt-in handler of a member is in flight.       *)
(***************************************************************************)
InitGuilds ==
  /\ NoPolicyTest
  /\ now = LastStart - 2
  /\ started = TRUE
  /\ next_update = _CONTEST_REFRESH_PERIOD
  /\ guilds = <<"g1", "g2">>
  /\ db = FinalContests
  /\ clist = FreshCache
  /\ views = [future |-> FinalContests, active |-> <<>>, finished |-> <<>>]
  /\ start_time_map = [s \in {LastStart} |-> FinalContests]
  /\ LET tz == get_default_guild_settings.localtimezone IN
       /\ guild_map = [g \in Guilds |->
            IF g = "g1"
            THEN [get_default_guild_settings EXCEPT
                    !.remind_channel_id = RemindChannel, !.remind_role_id = RemindRole,
                    !.remind_before = <<2>>, !.finalcall_channel_id = FinalChannel,
                    !.finalcall_before = 1]
            ELSE [get_default_guild_settings EXCEPT
                    !.remind_channel_id = RemindChannel, !.remind_role_id = RemindRole,
                    !.remind_before = <<1>>]]
       /\ task_map = [g \in Guilds |->
            IF g = "g1"
            THEN <<[RemindRequest(RemindChannel, RemindRole, FinalContests, 2,
                                  LastStart - 2, tz) EXCEPT !.pc = "done"]>>
            ELSE <<[RemindRequest(RemindChannel, RemindRole, FinalContests, 1,
                                  LastStart - 1, tz) EXCEPT !.pc = "sleep"]>>]
  /\ chan_log = [g \in Guilds |->
       IF g = "g1" THEN <<reminder_embed(task_map[g][1])>> ELSE <<>>]
  /\ reactions = [g \in Guilds |-> IF g = "g1" THEN <<{}>> ELSE <<>>]
  /\ stray = [g \in Guilds |-> {}]
  /\ finalcall_map = [g \in Guilds |-> EmptyDict]
  /\ finaltasks = [g \in Guilds |-> EmptyDict]
  /\ stray_final = [g \in Guilds |-> {}]
  /\ handler = [m \in Members |-> Idle]
  /\ final_log = [g \in Guilds |-> <<>>]
  /\ channels = [g \in Guilds |-> {RemindChannel, FinalChannel}]
  /\ roles = [g \in Guilds |-> {RemindRole}]
  /\ role_calls = [create |-> 0, delete |-> EmptyDict]
  /\ member_roles = [m \in Members |-> {}]
  /\ disk = Snapshot(guild_map, finalcall_map)
  /\ last = NoRebuild
  /\ armed = [g \in Guilds |-> IF g = "g1" THEN {<<LastStart, 2>>} ELSE {<<LastStart, 1>>}]

NextGuilds ==
  \/ _update_task
  \/ Tick
  \/ \E g \in Range(guilds) :
       \/ clear(g)
       \/ \E i \in DOMAIN task_map[g] : ReminderStart(g, i)
       \/ \E i \in DOMAIN task_map[g] : ReminderWake(g, i)
       \/ \E i \in DOMAIN task_map[g] : ReminderDeliver(g, i)
       \/ \E m \in OptOutMembers, msg \in ReactMsgs : ReactAdd(g, m, msg)
       \/ \E t \in FinalTasksOf(g) : FinalStart(g, t)
       \/ \E t \in FinalTasksOf(g) : FinalWake(g, t)
       \/ \E t \in FinalTasksOf(g) : FinalSent(g, t)
       \/ \E t \in FinalTasksOf(g) : FinalCleanup(g, t)
       \/ \E t \in FinalTasksOf(g) : FinalEdited(g, t)
       \/ \E t \in FinalTasksOf(g) : FinalRoleDeleted(g, t)
  \/ \E m \in Members :
       \/ AddFetched(m)
       \/ AddCreated(m)
       \/ AddGranted(m)
       \/ AddNotified(m)

SpecGuilds == InitGuilds /\ [][NextGuilds]_vars

(***************************************************************************)
(* Startup from a snapshot file: absent, cut short, written before the     *)
(* subscriptions were added to it, whole, or whole but for the settings of *)
(* one guild.  The scoped role of the pickled subscription may have been   *)
(* deleted while the process was down.                                     *)
(***************************************************************************)
ScopedRole == RoleIds[1]

PickledSettings ==
  [get_default_guild_settings EXCEPT
     !.remind_channel_id = RemindChannel, !.remind_role_id = RemindRole,
     !.remind_before = <<MaxBefore>>, !.finalcall_channel_id = FinalChannel,
     !.finalcall_before = MaxBefore]

PickledNotice ==
  reminder_embed(RemindRequest(RemindChannel, RemindRole, FinalContests, MaxBefore,
                               LastStart - MaxBefore, PickledSettings.localtimezone))

PickledGuildMap ==
  [g \in Guilds |-> IF g = "g1" THEN PickledSettings ELSE get_default_guild_settings]

PickledFinalcallMap ==
  [g \in Guilds |->
     IF g = "g1"
     THEN DictSet(EmptyDict, get_values_from_embed(PickledNotice).link,
                  FinalCallRequest(PickledNotice, ScopedRole, Unset))
     ELSE EmptyDict]

SnapshotFiles ==
  {NoFile, [exists |-> TRUE], [exists |-> TRUE, guild_map |-> PickledGuildMap],
   Snapshot(PickledGuildMap, PickledFinalcallMap)}
  \cup {Snapshot([PickledGuildMap EXCEPT ![g] = [corrupt |-> TRUE]], PickledFinalcallMap) :
           g \in Guilds}

InitLoad ==
  /\ Constructed
  /\ NoPolicyTest
  /\ now = 0
  /\ guilds = <<"g1">>
  /\ db = FinalContests
  /\ clist = FreshCache
  /\ chan_log = [g \in Guilds |-> IF g = "g1" THEN <<PickledNotice>> ELSE <<>>]
  /\ reactions = [g \in Guilds |-> IF g = "g1" THEN <<{"m1"}>> ELSE <<>>]
  /\ final_log = [g \in Guilds |-> <<>>]
  /\ channels = [g \in Guilds |-> {RemindChannel, FinalChannel}]
  /\ roles \in {[g \in Guilds |-> {RemindRole} \cup (IF g = "g1" THEN scoped ELSE {})] :
                  scoped \in {{}, {ScopedRole}}}
  /\ role_calls = [create |-> 1, delete |-> EmptyDict]
  /\ member_roles = [m \in Members |-> IF m = "m1" THEN roles["g1"] \ {RemindRole} ELSE {}]
  /\ disk \in SnapshotFiles
  /\ last = NoRebuild
  /\ armed = [g \in Guilds |-> {}]

NextLoad ==
  \/ on_ready
  \/ _update_task
  \/ Tick
  \/ \E g \in Range(guilds) :
       \/ settings(g)
       \/ \E i \in DOMAIN task_map[g] : ReminderStart(g, i)
       \/ \E i \in DOMAIN task_map[g] : ReminderWake(g, i)
       \/ \E i \in DOMAIN task_map[g] : ReminderDeliver(g, i)
       \/ \E t \in FinalTasksOf(g) : FinalStart(g, t)
       \/ \E t \in FinalTasksOf(g) : FinalWake(g, t)
       \/ \E t \in FinalTasksOf(g) : FinalSent(g, t)
       \/ \E t \in FinalTasksOf(g) : FinalCleanup(g, t)
       \/ \E t \in FinalTasksOf(g) : FinalEdited(g, t)
       \/ \E t \in FinalTasksOf(g) : FinalRoleDeleted(g, t)

SpecLoad == InitLoad /\ [][NextLoad]_vars

(***************************************************************************)
(* The policy commands t;remind subscribe and t;remind unsubscribe in two  *)
(* communities whose settings, loaded from the snapshot, differ.           *)
(***************************************************************************)
ConfiguredGuildMap ==
  [g \in Guilds |->
     IF g = "g1" THEN PickledSettings
     ELSE [PickledSettings EXCEPT !.localtimezone = "Europe/Paris",
                                  !.finalcall_channel_id = None,
                                  !.finalcall_before = Unset]]

InitPolicy ==
  /\ Constructed
  /\ NoPolicyTest
  /\ now = 0
  /\ guilds = <<"g1", "g2">>
  /\ db \in ContestFiles
  /\ clist = FreshCache
  /\ chan_log = [g \in Guilds |-> <<>>]
  /\ reactions = [g \in Guilds |-> <<>>]
  /\ final_log = [g \in Guilds |-> <<>>]
  /\ channels = [g \in Guilds |-> {RemindChannel, FinalChannel}]
  /\ roles = [g \in Guilds |-> {RemindRole}]
  /\ role_calls = [create |-> 0, delete |-> EmptyDict]
  /\ member_roles = [m \in Members |-> {}]
  /\ disk = Snapshot(ConfiguredGuildMap, [g \in Guilds |-> EmptyDict])
  /\ last = NoRebuild
  /\ armed = [g \in Guilds |-> {}]

NextPolicy ==
  \/ on_ready
  \/ _update_task
  \/ Tick
  \/ \E g \in Range(guilds) :
       \/ \E website \in Websites : subscribe(g, website)
       \/ \E website \in Websites : unsubscribe(g, website)
       \/ \E i \in DOMAIN task_map[g] : ReminderStart(g, i)
       \/ \E i \in DOMAIN task_map[g] : ReminderWake(g, i)
       \/ \E i \in DOMAIN task_map[g] : ReminderDeliver(g, i)

SpecPolicy == InitPolicy /\ [][NextPolicy]_vars

(***************************************************************************)
(* Round.is_desired on its own: a round and a policy table are drawn, and  *)
(* the call is made.                                                       *)
(***************************************************************************)
Letters == {"U", "n", "r"}
Patterns == {<<>>, <<"r">>, <<"u", "n", "r">>}

Names == UNION {[1..n -> Letters] : n \in 0..MaxNameLen}
PatternLists == UNION {[1..n -> Patterns] : n \in 0..MaxPatterns}

InitDesired ==
  /\ Constructed
  /\ Deployed
  /\ db = <<>>
  /\ clist = FreshCache
  /\ \E website \in Websites, name \in Names, allowed \in PatternLists, disallowed \in PatternLists :
       /\ pf_round = Round("url", website, name, 0)
       /\ pf_websites = [schema EXCEPT ![website] = WebsitePatterns(allowed, disallowed)]
  /\ pf_result = None

CallIsDesired ==
  /\ pf_result = None
  /\ pf_result' = IF is_desired(pf_round, pf_websites) THEN "True" ELSE "False"
  /\ UNCHANGED <<pf_round, pf_websites>>
  /\ UNCHANGED engineVars

NextDesired == CallIsDesired

SpecDesired == InitDesired /\ [][NextDesired]_vars


(***************************************************************************)
(* Reminder tasks and notices, as the claims count them.                   *)
(***************************************************************************)
\* the live reminder tasks of a guild: those of its list and the strays
LiveListed(g) == {i \in DOMAIN task_map[g] : IsLive(task_map[g][i])}

\* the bucket (start time) and the lead time a task or a notice is for
TaskKey(task) == <<task.send_time + task.before_secs, task.before_secs>>
NoticeKey(embed) == <<get_values_from_embed(embed).start_time, embed.description>>

LiveFor(g, key) ==
  Cardinality({i \in LiveListed(g) : TaskKey(task_map[g][i]) = key})
    + Cardinality({t \in stray[g] : TaskKey(t) = key})

Delivered(g, key) ==
  Cardinality({i \in DOMAIN chan_log[g] : NoticeKey(chan_log[g][i]) = key})

AllKeys == (0..MaxTime) \X (0..MaxBefore)

\* C1: for fixed contest data and settings, the notice of each (community,
\* start-time bucket, lead time) reaches the transport at most once, whatever
\* rebuilds are interleaved with the wake-ups of the tasks.
C1_NoDuplicateReminder ==
  \A g \in Guilds : \A key \in AllKeys : Delivered(g, key) <= 1

\* C2: a reminder whose fire time had not passed when its task was first
\* created (since the settings last changed) is delivered: once the fire time
\* is behind and no task for it is left alive, its notice has been posted.
C2_NoMissedReminder ==
  \A g \in Guilds : \A key \in armed[g] :
    (now > key[1] - key[2] /\ LiveFor(g, key) = 0) => Delivered(g, key) >= 1

\* C3: at most one live reminder task per (community, contest, lead time).
C3_AtMostOneLiveTask ==
  \A g \in Guilds : \A key \in AllKeys : LiveFor(g, key) <= 1

\* the desired contests of the start-time map, by URL, and the lead times
DesiredFuture(g) ==
  UNION {{contest.url : contest \in Range(get_guild_contests(start_time_map[s], guild_map[g]))} :
           s \in DOMAIN start_time_map}

DistinctBefore(g) ==
  IF guild_map[g].remind_role_id = None THEN {} ELSE Range(guild_map[g].remind_before)

StartOf(url) == (CHOOSE i \in DOMAIN db : db[i].url = url) 

PastPairs(g) ==
  {p \in DesiredFuture(g) \X DistinctBefore(g) : db[StartOf(p[1])].start_time - p[2] <= now}

LiveCount(g) == Cardinality(LiveListed(g)) + Cardinality(stray[g])

DesiredBuckets(g) ==
  {s \in DOMAIN start_time_map : get_guild_contests(start_time_map[s], guild_map[g]) # <<>>}

FireBag(g) == [key \in {k \in AllKeys : LiveFor(g, k) > 0} |-> LiveFor(g, key)]

\* C6: a second rebuild(C) in succession, nothing having changed, leaves the
\* same multiset of (bucket, lead time, fire time) alive, and none of the
\* tasks the first rebuild created.
C6_RebuildIdempotent ==
  [][\A g \in Guilds :
       g \in last'.twice =>
         /\ FireBag(g)' = FireBag(g)
         /\ stray'[g] = {}
         /\ \A i \in DOMAIN task_map'[g] : task_map'[g][i].pc = "new"]_vars

C6_Witness ==
  /\ "g1" \in last.twice
  /\ Len(task_map["g1"]) >= 2

\* the patterns of a list that occur in the lowercased name of the round
Hits(patterns, round) == {i \in DOMAIN patterns : str_in(patterns[i], lower(round.name))}

\* C7: is_desired is true exactly when no disallowed pattern of the round's
\* website occurs in the lowercased name and some allowed pattern does; a
\* disallow hit wins over any allow hit, and the empty allowed pattern admits
\* every name without a disallow hit.
C7_PolicyCorrect ==
  pf_result # None =>
    LET policy == pf_websites[pf_round.website]
    IN /\ (pf_result = "True") <=>
            (/\ Hits(policy.disallowed_patterns, pf_round) = {}
             /\ Hits(policy.allowed_patterns, pf_round) # {})
       /\ Hits(policy.disallowed_patterns, pf_round) # {} => pf_result = "False"
       /\ (/\ Hits(policy.disallowed_patterns, pf_round) = {}
           /\ <<>> \in Range(policy.allowed_patterns)) => pf_result = "True"

\* a name with a capital in which both a disallowed and an allowed pattern
\* occur, found not desired
C7_Witness ==
  /\ pf_result = "False"
  /\ pf_round.name = <<"U", "n", "r">>
  /\ Hits(pf_websites[pf_round.website].disallowed_patterns, pf_round) # {}
  /\ Hits(pf_websites[pf_round.website].allowed_patterns, pf_round) # {}

\* the links some final-call task or subscription of guild g is about
FinalLinks(g) ==
  DOMAIN finalcall_map[g] \cup {t.link : t \in FinalTasksOf(g)}

LiveFinal(g, link) == {t \in FinalTasksOf(g) : t.link = link /\ IsLive(t)}

\* C4: at most one live final-call delivery task per (community, contest
\* URL), whatever the interleaving of the opt-in handlers; the subscription
\* table holds at most one record per URL by construction.
C4_AtMostOneFinalTask ==
  \A g \in Guilds : \A link \in FinalLinks(g) : Cardinality(LiveFinal(g, link)) <= 1

\* C8: while no scoped role has been deleted, two members who were both
\* granted a role for the contest hold the same role, createRole was invoked
\* once, and one subscription and one live delivery task exist.
C8_FinalCallIdempotent ==
  \A m1 \in Members : \A m2 \in Members \ {m1} :
    (/\ member_roles[m1] # {}
     /\ member_roles[m2] # {}
     /\ DOMAIN role_calls.delete = {})
    => /\ role_calls.create = 1
       /\ member_roles[m1] = member_roles[m2]

\* C9: deleteRole is invoked at most once on any scoped role, for every
\* interleaving of the opt-out handler with the delivery task's cleanup.
C9_DeleteRoleOnce ==
  \A role \in DOMAIN role_calls.delete : role_calls.delete[role] <= 1

\* C10: right after a restart (snapshot written, process gone, snapshot
\* loaded, startup rebuild and reconcile) the pending final-call
\* subscriptions, by link, send time and start time, and the pending reminder
\* fire times are those of the moment the process went down.
C10_RestartReconstruction ==
  last.phase = "reconciled" =>
    \A g \in Range(guilds) : Pending(g) = last.pre[g]

\* C11: rebuild(C) cancels every task of C's list and empties the list before
\* it creates a task, so that when it has returned the list holds only tasks
\* that have not started yet, and no task of an earlier rebuild is left alive
\* to start a delivery: at any time the live reminder tasks are those of the
\* list the latest rebuild made.
C11_CancelBeforeCreate ==
  /\ [](\A g \in Guilds : stray[g] = {})
  /\ [][\A g \in Guilds :
          g \in last'.rebuilt =>
            /\ stray'[g] = {}
            /\ \A i \in DOMAIN task_map'[g] : task_map'[g][i].pc = "new"]_vars

\* a rebuild that found a sleeping task of an earlier rebuild and made a new
\* list
C11_Witness ==
  /\ "g1" \in last.superseded
  /\ task_map["g1"] # <<>>

\* C12: the refresh loop re-arms after every iteration, one that raised
\* included: while the process is up, a next iteration is scheduled.
C12_RefreshRearms == started => next_update # Unset

\* C13: when the reminder channel or role of the settings is gone from the
\* platform as rebuild(C) runs, C has no live reminder task afterwards.
C13_NoTaskWithoutTarget ==
  \A g \in Guilds :
    (/\ g \in last.rebuilt
     /\ guild_map[g].remind_role_id # None
     /\ \/ get_channel(g, guild_map[g].remind_channel_id) = None
        \/ get_role(g, guild_map[g].remind_role_id) = None)
    => LiveListed(g) = {}

\* C18: a task created for a fire time that is already past delivers at once:
\* the step that ends such a task, fresh from its creation, posts its notice.
C18_PastFireDelivers ==
  [][\A g \in Guilds : \A i \in DOMAIN task_map[g] :
       (/\ i \in DOMAIN task_map'[g]
        /\ task_map[g][i].pc = "new"
        /\ task_map[g][i].send_time < now
        /\ task_map'[g][i].pc = "done")
       => Len(chan_log'[g]) > Len(chan_log[g])]_vars

\* C19: no reminder notice is posted at a moment later than its fire time.
C19_NeverLate ==
  [][\A g \in Guilds :
       Len(chan_log'[g]) > Len(chan_log[g]) =>
         LET key == NoticeKey(chan_log'[g][Len(chan_log'[g])])
         IN key[1] - key[2] >= now]_vars

\* C16: on_ready leaves either the pair of tables of the snapshot, whole, or
\* both tables empty (the settings at their defaults, no subscription), and
\* the refresh loop is started either way.
C16_LoadAllOrNothing ==
  [][(~started /\ started') =>
       /\ next_update' # Unset
       /\ \/ /\ loads(disk)
             /\ guild_map' = disk.guild_map
             /\ finalcall_map' = disk.finalcall_map
          \/ /\ guild_map' = [g \in Guilds |-> get_default_guild_settings]
             /\ finalcall_map' = [g \in Guilds |-> EmptyDict]]_vars

\* C17: when a command with its after-invoke rebuild and reconcile, or a
\* refresh with its reconcile, has changed the settings table or the
\* subscription table, and when an opt-in or an opt-out has run to its end,
\* the snapshot on disk is the pair of tables in memory.
C17_SnapshotCurrent ==
  [][(\/ /\ last'.rebuilt # {} \/ last'.phase = "reconciled"
         /\ <<guild_map, finalcall_map>>' # <<guild_map, finalcall_map>>
      \/ \E m \in Members :
           handler[m].pc \in {"dm", "rdm", "rdelete"} /\ handler'[m] = Idle)
     => disk' = Snapshot(guild_map', finalcall_map')]_vars

\* C14: an opt-in whose send time is not ahead when it is handled (the
\* boundary send_time = now included) creates no scoped role, no subscription
\* and no task, and grants no role: a handler that creates the role or grants
\* one to its member computed a send time later than now.
C14_LateOptInRejected ==
  [][\A m \in Members :
       (\/ member_roles'[m] \ member_roles[m] # {}
        \/ handler[m].pc = "create" /\ role_calls'.create > role_calls.create)
       => handler[m].send_time > now]_vars

C20_CleanupHappens ==
  \A g \in Guilds : \A link \in DOMAIN finalcall_map[g] :
    (/\ started
     /\ next_update # Unset
     /\ next_update > now
     /\ Quiet
     /\ now > LastStart)
    => LiveFinal(g, link) # {}

\* C21: when a reconcile of the final-call subscriptions has returned, every
\* subscription whose scoped role exists is in the table with its role id and
\* message id, and its one live task is a fresh one, the task that served it
\* before being cancelled; a subscription whose role is gone has left the
\* table and has no live task.
C21_ReconcilePreserves ==
  [][\A g \in Guilds :
       g \in last'.rebuilt =>
         \A link \in DOMAIN finalcall_map[g] :
           IF get_role(g, finalcall_map[g][link].role_id) # None
           THEN /\ link \in DOMAIN finalcall_map'[g]
                /\ finalcall_map'[g][link].role_id = finalcall_map[g][link].role_id
                /\ finalcall_map'[g][link].msg_id = finalcall_map[g][link].msg_id
                /\ link \in DOMAIN finaltasks'[g]
                /\ finaltasks'[g][link].pc = "new"
                /\ LiveFinal(g, link)' = {finaltasks'[g][link]}
           ELSE /\ link \notin DOMAIN finalcall_map'[g]
                /\ LiveFinal(g, link)' = {}]_vars

\* the reconcile of guild g raises: subscriptions, and no final-call lead time
ReconcileFails(g) ==
  DOMAIN finalcall_map[g] # {} /\ guild_map[g].finalcall_before = Unset

\* C22: a failure in the rebuild or the reconcile of one community stays with
\* that community: a periodic refresh rebuilds the reminder tasks of every
\* community whose own reconcile does not fail (its list is made anew, one
\* task not yet started per bucket and lead time), and changes no settings.
C22_FailureIsLocal ==
  [][(started /\ started' /\ next_update' # next_update) =>
       /\ guild_map' = guild_map
       /\ \A g \in Range(guilds) :
            ~ReconcileFails(g) =>
              /\ \A i \in DOMAIN task_map'[g] : task_map'[g][i].pc = "new"
              /\ Len(task_map'[g]) =
                   IF guild_map'[g].remind_role_id = None THEN 0
                   ELSE Cardinality(DesiredBuckets(g)') * Len(guild_map'[g].remind_before)]_vars

\* a step that calls the API, and a step of the refresh loop
Queried == clist'.asked # clist.asked
Refreshed == started /\ started' /\ next_update' # next_update

\* C23: the API is called only by a refresh that finds the contest file
\* older than the freshness window (nothing forces a refresh); a call that
\* fails leaves the file and its time stamp as they were and the contests of
\* the file in use; and the refresh loop goes on, so that the call is made
\* again by the next refresh.
C23_QueryPolicy ==
  /\ [][Queried => Refreshed /\ ~is_fresh(FALSE)]_vars
  /\ [][(Queried /\ clist'.failed) =>
          /\ db' = db
          /\ clist'.exists = clist.exists
          /\ clist'.querytime = clist.querytime
          /\ start_time_map' = new_start_time_map(db)]_vars
  /\ [][(Refreshed /\ ~is_fresh(FALSE)) => Queried]_vars
  /\ [](started /\ clist.failed => next_update # Unset)

\* C24: a record of the contest file that does not parse is left out and
\* nothing else: a refresh puts every future, desired, well-formed record of
\* the file into the start-time map, from which the tasks are made.
C24_BadRecordSkipped ==
  [][Refreshed =>
       start_time_map' =
         new_start_time_map(SelectSeq(db', LAMBDA contest : parses(contest)))]_vars

\* the settings of guild g but for the policy entry of website w
RestOfSettings(gm, g, w) ==
  [gm[g] EXCEPT !.website_patterns =
                  [x \in Websites \ {w} |-> gm[g].website_patterns[x]]]

\* C25: subscribe(C, W) and unsubscribe(C, W) change the allow and disallow
\* lists of W in the settings of C and nothing else of the settings table:
\* the lists of W become those of the default table, or lists under which no
\* contest of W is desired; the entries of the other websites, the shorthands
\* and the prefix of W, the other fields of C's settings and the settings of
\* the other communities stay as they were.
C25_PolicyFrame ==
  [][(last'.rebuilt # {} /\ ~Refreshed) =>
       \E g \in last'.rebuilt : \E w \in Websites :
         LET old == guild_map[g].website_patterns[w]
             new == guild_map'[g].website_patterns[w]
         IN /\ \A other \in Guilds \ {g} : guild_map'[other] = guild_map[other]
            /\ RestOfSettings(guild_map', g, w) = RestOfSettings(guild_map, g, w)
            /\ new.shorthands = old.shorthands
            /\ new.prefix = old.prefix
            /\ \/ /\ new.allowed_patterns = schema[w].allowed_patterns
                  /\ new.disallowed_patterns = schema[w].disallowed_patterns
               \/ \A name \in Names :
                    ~is_desired(Round("url", w, name, 0), guild_map'[g].website_patterns)]_vars

\* g1, with settings of its own and a neighbour with others, has just
\* unsubscribed from a website
C25_Witness ==
  /\ last.rebuilt = {"g1"}
  /\ guild_map["g1"].remind_role_id # None
  /\ guild_map["g2"].localtimezone # guild_map["g1"].localtimezone
  /\ \E w \in Websites :
       /\ guild_map["g1"].website_patterns[w].allowed_patterns = <<>>
       /\ guild_map["g1"].website_patterns[w].prefix = schema[w].prefix

\* a list holds no round twice
NoRepeat(contests) == Cardinality(Range(contests)) = Len(contests)

\* C26: after a refresh, by the clock of the refresh, the future list holds
\* the cached contests with start > now and the active list those with
\* start <= now <= end, each once, both ascending by start; the finished list
\* holds contests with end < now, each once, descending by end, as many as
\* there are up to _FINISHED_CONTESTS_LIMIT and none that ended before one
\* left out; and the tasks the refresh creates are for contests of the future
\* list.
C26_ThreeViews ==
  [][Refreshed =>
       LET cached == Range(contest_cache(db'))
           future == views'.future
           active == views'.active
           finished == views'.finished
           ended == {contest \in cached : end_time(contest) < now}
       IN /\ Range(future) = {contest \in cached : contest.start_time > now}
          /\ Range(active) = {contest \in cached :
                                contest.start_time <= now /\ now <= end_time(contest)}
          /\ Range(finished) \subseteq ended
          /\ NoRepeat(future) /\ NoRepeat(active) /\ NoRepeat(finished)
          /\ \A i \in DOMAIN future : \A j \in DOMAIN future :
               i < j => future[i].start_time <= future[j].start_time
          /\ \A i \in DOMAIN active : \A j \in DOMAIN active :
               i < j => active[i].start_time <= active[j].start_time
          /\ \A i \in DOMAIN finished : \A j \in DOMAIN finished :
               i < j => end_time(finished[i]) >= end_time(finished[j])
          /\ Len(finished) = IF Cardinality(ended) < _FINISHED_CONTESTS_LIMIT
                             THEN Cardinality(ended) ELSE _FINISHED_CONTESTS_LIMIT
          /\ \A contest \in ended \ Range(finished) : \A i \in DOMAIN finished :
               end_time(contest) <= end_time(finished[i])
          /\ \A g \in Guilds : \A i \in DOMAIN task_map'[g] :
               Range(task_map'[g][i].contests) \subseteq Range(future)]_vars

\* a refresh has left contests in each list, a finished one left out, and
\* tasks
C26_Witness ==
  /\ views # NoViews
  /\ views.future # <<>>
  /\ views.active # <<>>
  /\ Len(views.finished) = _FINISHED_CONTESTS_LIMIT
  /\ \E i \in DOMAIN db :
       end_time(db[i]) < next_update - _CONTEST_REFRESH_PERIOD /\ db[i] \notin Range(views.finished)
  /\ task_map["g1"] # <<>>
  /\ next_update = now + _CONTEST_REFRESH_PERIOD

\* C27: the opt-in of a service bot account creates no scoped role, no
\* subscription and no task, and grants no role: no step of the handler of
\* such a member calls createRole or gives the member a role.
C27_BotOptInIgnored ==
  [][\A m \in ServiceBots :
       /\ handler[m].pc = "create" => /\ role_calls'.create = role_calls.create
                                      /\ finalcall_map' = finalcall_map
                                      /\ finaltasks' = finaltasks
       /\ member_roles'[m] \subseteq member_roles[m]]_vars

\* C28: the assertion of on_raw_reaction_remove holds whenever it is reached:
\* an opt-out handler for which get_finalcall_taskrole resolves no role finds
\* no subscription for the notice's contest in the table.
C28_OptOutAssertion ==
  [][\A m \in Members :
       LET h == handler[m]
           link == get_values_from_embed(chan_log[h.g][h.msg]).link
       IN (/\ h.pc = "rfetch"
           /\ handler'[m] # h
           /\ guild_map[h.g].finalcall_before # Unset
           /\ taskrole(h.g, link) = None)
          => link \notin DOMAIN finalcall_map[h.g]]_vars

\* C29: an opt-out tears the subscription down only when nobody is opted in:
\* before the contest starts, no step takes a role from a member whose
\* reaction stands and whose opt-in handler has run to its end, nor removes
\* the subscription that role belongs to or leaves it without a live task.
C29_OptedInKeepsRole ==
  [][\A g \in Guilds : \A msg \in DOMAIN reactions[g] : \A m \in reactions[g][msg] :
       (handler[m] = Idle /\ now < LastStart) =>
         /\ member_roles[m] \subseteq member_roles'[m]
         /\ \A link \in DOMAIN finalcall_map[g] :
              finalcall_map[g][link].role_id \in member_roles[m] =>
                /\ link \in DOMAIN finalcall_map'[g]
                /\ LiveFinal(g, link)' # {}]_vars

\* C30: the final-call notice of a subscription, the message that mentions
\* its scoped role, is posted in the final-call channel at most once.
C30_NoticeAtMostOnce ==
  \A g \in Guilds : \A i, j \in DOMAIN final_log[g] :
    (final_log[g][i].role = final_log[g][j].role
       /\ final_log[g][i].link = final_log[g][j].link) => i = j

\* C31: a settings-mutating command of a community, t;remind clear among
\* them, and the reconcile that follows it lose no pending final call: every
\* subscription that was in the table before the command and whose scoped
\* role exists is in the table afterwards and has a live task, whether the
\* reconcile ran to its end or stopped with an error.
C31_CommandKeepsPending ==
  [][\A g \in Guilds :
       (started /\ g \in last'.rebuilt /\ next_update' = next_update) =>
         \A link \in DOMAIN finalcall_map[g] :
           get_role(g, finalcall_map[g][link].role_id) # None =>
             /\ link \in DOMAIN finalcall_map'[g]
             /\ LiveFinal(g, link)' # {}]_vars

\* C32: a command that changes the time zone of a community leaves every
\* pending final call as it was: each subscription whose scoped role exists
\* keeps its contest URL, and the task the reconcile makes for it has the
\* start time and the send time of the task it replaces.
C32_TimeZoneFrame ==
  [][\A g \in Guilds :
       (started /\ started' /\ guild_map'[g].localtimezone # guild_map[g].localtimezone) =>
         \A link \in DOMAIN finalcall_map[g] \cap DOMAIN finaltasks[g] :
           get_role(g, finalcall_map[g][link].role_id) # None =>
             /\ link \in DOMAIN finalcall_map'[g]
             /\ link \in DOMAIN finaltasks'[g]
             /\ finaltasks'[g][link].link = link
             /\ get_values_from_embed(finaltasks'[g][link].embed).link = link
             /\ get_values_from_embed(finaltasks'[g][link].embed).start_time
                  = get_values_from_embed(finaltasks[g][link].embed).start_time
             /\ finaltasks'[g][link].send_time = finaltasks[g][link].send_time]_vars

====
